---- MODULE Spec2Model ----
(***************************************************************************)
(* Staff directory of the clinic portal: the row-level visibility and      *)
(* field masking evaluator of the Directory page                          *)
(* (src/src/pages/Dashboard.tsx, Directory, lines 2366-2479, and its       *)
(* single-role predecessor, lines 1893-1921), the load of its inputs from  *)
(* the remote store (fetchDirectoryAndAuth) and the remote tables it reads *)
(* (staff_profiles, role_permissions).                                     *)
(***************************************************************************)
EXTENDS Integers, Sequences, FiniteSets, TLC

(***************************************************************************)
(* Bounds of the model.                                                    *)
(***************************************************************************)
\* number of rows of staff_profiles
MaxStaff == 2
\* largest number of rows of role_permissions
MaxRules == 2

(***************************************************************************)
(* Values.  A JavaScript null/undefined string is NULL, a null array is    *)
(* NullArr; arrays that the code only reads through includes()/some() are  *)
(* sets.                                                                   *)
(***************************************************************************)
NULL == "<null>"
NullArr == {NULL}
\* the value Array.prototype.find returns when nothing matches
undefined == [undefined |-> TRUE]
\* supabase.auth.getUser() without a session
NoUser == 0

StaffIds == 1..MaxStaff

\* role tags held by staff members
Roles == {"management", "clinical_provider"}
\* departments of the permission matrix (DEPARTMENTS)
DEPARTMENTS == {"clinical", "finance"}
\* field names that a rule's visible_fields holds
FieldNames == {"work_phone", "bio"}
\* clinic locations offered by the location check boxes
Locations == {"Headquarter", "Burnaby", "Richmond"}

\* String.prototype.toLowerCase on the department strings of the model
toLowerCase(s) ==
    CASE s = "Clinical" -> "clinical"
      [] s = "Finance" -> "finance"
      [] s = "Legal" -> "legal"
      [] OTHER -> s

\* x || [] on an array value
OrEmpty(x) == IF x = NullArr THEN {} ELSE x

(***************************************************************************)
(* Rows of the remote tables.                                              *)
(***************************************************************************)
\* interface RolePermission
RolePermission ==
    [viewer_role : Roles, target_department : DEPARTMENTS,
     can_view : BOOLEAN, visible_fields : SUBSET FieldNames]

\* "viewer_role, target_department" is the conflict key of the upsert
UniqueKey(rules) ==
    \A r1, r2 \in rules :
        (r1.viewer_role = r2.viewer_role
            /\ r1.target_department = r2.target_department) => r1 = r2

\* the composite keys of the rules
RuleKeys == Roles \X DEPARTMENTS
\* a rule that admits the department lists any of the fields; a rule that
\* denies it lists no field or still lists all of them
RuleAttrs ==
    [can_view : {TRUE}, visible_fields : SUBSET FieldNames]
        \cup [can_view : {FALSE}, visible_fields : {{}, FieldNames}]

MakeRule(key, attr) ==
    [viewer_role |-> key[1], target_department |-> key[2],
     can_view |-> attr.can_view, visible_fields |-> attr.visible_fields]

\* the contents the role_permissions table can have: at most MaxRules rows,
\* one per composite key
PermissionTables ==
    UNION {{{MakeRule(k, f[k]) : k \in K} : f \in [K -> RuleAttrs]} :
              K \in {K \in SUBSET RuleKeys : Cardinality(K) <= MaxRules}}

\* the staff rows the store can hold (interface StaffProfile, without id),
\* in the order of legal_last_name
StaffRows ==
    << [role |-> {"management", "clinical_provider"}, department |-> "clinical",
        clinic_locations |-> {"Burnaby"}, work_phone |-> "604-555-0101",
        bio |-> "Physiotherapist", job_title |-> "Clinic Manager",
        legal_last_name |-> "Adams", practitioner_license_number |-> "L-100"],
       [role |-> {"clinical_provider"}, department |-> "Finance",
        clinic_locations |-> {"Richmond"}, work_phone |-> "604-555-0102",
        bio |-> "", job_title |-> "Controller",
        legal_last_name |-> "Brown", practitioner_license_number |-> ""],
       [role |-> {"management"}, department |-> "finance",
        clinic_locations |-> {"Headquarter", "Richmond"}, work_phone |-> "",
        bio |-> "Finance lead", job_title |-> "Manager",
        legal_last_name |-> "Chen", practitioner_license_number |-> ""],
       [role |-> {}, department |-> "Legal",
        clinic_locations |-> {}, work_phone |-> "604-555-0104",
        bio |-> "Counsel", job_title |-> "Counsel",
        legal_last_name |-> "Diaz", practitioner_license_number |-> "L-400"],
       [role |-> NullArr, department |-> NULL,
        clinic_locations |-> NullArr, work_phone |-> "604-555-0105",
        bio |-> "New hire", job_title |-> "",
        legal_last_name |-> "Evans", practitioner_license_number |-> ""] >>

WithId(row, i) == [id |-> i] @@ row

\* the contents the staff_profiles table can have: MaxStaff rows, identified
\* by their position in the order of legal_last_name
StaffTables ==
    {[i \in StaffIds |-> WithId(StaffRows[f[i]], i)] :
        f \in {g \in [StaffIds -> DOMAIN StaffRows] :
                  \A i, j \in StaffIds : i <= j => g[i] <= g[j]}}

VARIABLES
    authUser,               \* the session user's id, NoUser without a session
    db_staff,               \* table staff_profiles: id -> row
    db_perms,               \* table role_permissions: set of rows
    pc,                     \* position of fetchDirectoryAndAuth
    currentRole,            \* local variable of fetchDirectoryAndAuth
    staff,                  \* Directory state
    currentUserRole,
    currentUserLocations,
    rolePermissions,
    isLoading,
    toastError,             \* toast.error has been raised
    visibleStaff,           \* the list the last render obtained
    adminEnv,               \* per administrator: the session and stored role
    admin,                  \* per administrator: the AdminSettings state
    calls,                  \* the handleToggle calls that are in flight
    writeLog,               \* the upserts role_permissions has applied
    toggles,                \* number of handleToggle calls so far
    db_hr,                  \* table hr_records: the ids that have a row
    dash,                   \* the Dashboard state
    dirx,                   \* Directory state of the HR modal and the editor
    requests,               \* the requests the pages have issued
    app                     \* the App state and the session provider

\* the session user and the state of Directory.fetchDirectoryAndAuth
directoryVars == <<authUser, pc, currentRole, staff, currentUserRole,
                   currentUserLocations, rolePermissions, isLoading,
                   toastError, visibleStaff>>
\* the state of AdminSettings
adminVars == <<adminEnv, admin, calls, writeLog, toggles>>
\* the state of the Dashboard and of the Directory's HR modal and editor
pageVars == <<db_hr, dash, dirx, requests>>

vars == <<db_staff, db_perms, directoryVars, adminVars, pageVars, app>>

(***************************************************************************)
(* Array helpers.                                                          *)
(***************************************************************************)
Min(S) == CHOOSE x \in S : \A y \in S : x <= y

\* the elements of an array
Range(seq) == {seq[i] : i \in DOMAIN seq}

\* Array.prototype.find
find(arr, Test(_)) ==
    LET hits == {i \in DOMAIN arr : Test(arr[i])}
    IN  IF hits = {} THEN undefined ELSE arr[Min(hits)]

\* Array.prototype.map
map(arr, F(_)) == [i \in DOMAIN arr |-> F(arr[i])]

\* all orders in which the rows of a set can be returned
RECURSIVE Orderings(_)
Orderings(S) ==
    IF S = {} THEN {<<>>}
    ELSE UNION {{<<x>> \o rest : rest \in Orderings(S \ {x})} : x \in S}

(***************************************************************************)
(* Directory.getVisibleStaffAndMasking                                     *)
(***************************************************************************)
personDept(person) ==
    IF person.department = NULL THEN NULL ELSE toLowerCase(person.department)

findRule(perms, dept) ==
    LET Matches(p) == p.target_department = dept
    IN  find(perms, Matches)

hasIntersection(person, locs) ==
    \E loc \in OrEmpty(person.clinic_locations) : loc \in locs

\* variant: the gate is applied only when management is the viewer's only role
locationGate_OnlyRole(role, locs, person) ==
    IF role = {"management"}
    THEN IF "Headquarter" \notin locs
         THEN hasIntersection(person, locs)
         ELSE TRUE
    ELSE TRUE

\* variant: the gate is applied to every management viewer, Headquarter or not
locationGate_NoHeadquarter(role, locs, person) ==
    IF "management" \in role
    THEN hasIntersection(person, locs)
    ELSE TRUE

locationGate(role, locs, person) ==
    IF "management" \in role
    THEN IF "Headquarter" \notin locs
         THEN hasIntersection(person, locs)
         ELSE TRUE
    ELSE TRUE

\* variant: the gate does not test can_view
departmentGate_IgnoresCanView(perms, person) ==
    LET rule == findRule(perms, personDept(person))
    IN  rule # undefined

\* variant: a target without a rule passes the gate
departmentGate_MissingRuleAllows(perms, person) ==
    LET rule == findRule(perms, personDept(person))
    IN  rule = undefined \/ rule.can_view

departmentGate(perms, person) ==
    LET rule == findRule(perms, personDept(person))
    IN  rule # undefined /\ rule.can_view

\* variant: the phone is tested under the name phone_number
masked_PhoneNumberName(perms, person) ==
    LET rule == findRule(perms, personDept(person))
    IN  IF rule # undefined
        THEN LET visibleFields == OrEmpty(rule.visible_fields)
             IN  [person EXCEPT
                    !.work_phone = IF "phone_number" \in visibleFields
                                   THEN person.work_phone ELSE "",
                    !.bio = IF "bio" \in visibleFields
                            THEN person.bio ELSE ""]
        ELSE person

\* variant: only the bio is redacted
masked_OnlyBio(perms, person) ==
    LET rule == findRule(perms, personDept(person))
    IN  IF rule # undefined
        THEN LET visibleFields == OrEmpty(rule.visible_fields)
             IN  [person EXCEPT
                    !.bio = IF "bio" \in visibleFields
                            THEN person.bio ELSE ""]
        ELSE person

\* variant: the returned record carries the lower-cased department
masked_LowerCasedDepartment(perms, person) ==
    LET rule == findRule(perms, personDept(person))
    IN  IF rule # undefined
        THEN LET visibleFields == OrEmpty(rule.visible_fields)
             IN  [person EXCEPT
                    !.department = personDept(person),
                    !.work_phone = IF "work_phone" \in visibleFields
                                   THEN person.work_phone ELSE "",
                    !.bio = IF "bio" \in visibleFields
                            THEN person.bio ELSE ""]
        ELSE person

masked(perms, person) ==
    LET rule == findRule(perms, personDept(person))
    IN  IF rule # undefined
        THEN LET visibleFields == OrEmpty(rule.visible_fields)
             IN  [person EXCEPT
                    !.work_phone = IF "work_phone" \in visibleFields
                                   THEN person.work_phone ELSE "",
                    !.bio = IF "bio" \in visibleFields
                            THEN person.bio ELSE ""]
        ELSE person

\* variant: the early return tests only that the role array is loaded
getVisibleStaffAndMasking_NoLengthTest(role, locs, perms, roster) ==
    IF role = NullArr THEN <<>>
    ELSE LET Keep(person) == locationGate(role, locs, person)
                                /\ departmentGate(perms, person)
             Redact(person) == masked(perms, person)
         IN  map(SelectSeq(roster, Keep), Redact)

getVisibleStaffAndMasking(role, locs, perms, roster) ==
    IF role = NullArr \/ role = {} THEN <<>>
    ELSE LET Keep(person) == locationGate(role, locs, person)
                                /\ departmentGate(perms, person)
             Redact(person) == masked(perms, person)
         IN  map(SelectSeq(roster, Keep), Redact)

(***************************************************************************)
(* Directory.getVisibleStaffAndMasking of the single-role Directory: the   *)
(* viewer's role is one string, the phone is the field phone_number and    *)
(* the location-scoped role is clinic_manager.                             *)
(***************************************************************************)
findRuleV1(perms, dept) ==
    LET Matches(p) == p.target_department = dept
    IN  find(perms, Matches)

locationGateV1(role, locs, person) ==
    IF role = "clinic_manager"
    THEN IF "Headquarter" \notin locs
         THEN \E loc \in OrEmpty(person.clinic_locations) : loc \in locs
         ELSE TRUE
    ELSE TRUE

departmentGateV1(perms, person) ==
    LET rule == findRuleV1(perms, personDept(person))
    IN  rule # undefined /\ rule.can_view

maskedV1(perms, person) ==
    LET rule == findRuleV1(perms, personDept(person))
    IN  IF rule # undefined
        THEN LET visibleFields == OrEmpty(rule.visible_fields)
             IN  [person EXCEPT
                    !.phone_number = IF "phone_number" \in visibleFields
                                     THEN person.phone_number ELSE "",
                    !.bio = IF "bio" \in visibleFields
                            THEN person.bio ELSE ""]
        ELSE person

getVisibleStaffAndMaskingV1(role, locs, perms, roster) ==
    IF role = NULL \/ role = "" THEN <<>>
    ELSE LET Keep(person) == locationGateV1(role, locs, person)
                                /\ departmentGateV1(perms, person)
             Redact(person) == maskedV1(perms, person)
         IN  map(SelectSeq(roster, Keep), Redact)

\* what the component renders: the spinner while loading, else the roster
render(loading, role, locs, perms, roster) ==
    IF loading THEN <<>>
    ELSE getVisibleStaffAndMasking(role, locs, perms, roster)

(***************************************************************************)
(* The pages are mounted one at a time by the routes of App; the state of  *)
(* a page that is not mounted does not exist.                              *)
(***************************************************************************)
\* the browsers in which AdminSettings is open
Admins == {"admin_a", "admin_b"}

\* the state of a component that is not mounted
Unmounted == [pc |-> "unmounted"]

AdminIdle ==
    /\ adminEnv = [a \in Admins |-> Unmounted]
    /\ admin = [a \in Admins |-> Unmounted]
    /\ calls = {}
    /\ writeLog = <<>>
    /\ toggles = 0

PagesIdle ==
    /\ db_hr = {}
    /\ dash = Unmounted
    /\ dirx = Unmounted
    /\ requests = {}

AppIdle == app = Unmounted

(***************************************************************************)
(* Initial state: the remote tables hold any contents, the Directory has   *)
(* just been mounted (useState initial values) and its effect is about to  *)
(* run.                                                                    *)
(***************************************************************************)
Init ==
    /\ authUser \in {NoUser} \cup StaffIds
    /\ db_staff \in StaffTables
    /\ db_perms \in PermissionTables
    /\ pc = "getUser"
    /\ currentRole = NullArr
    /\ staff = <<>>
    /\ currentUserRole = NullArr
    /\ currentUserLocations = {}
    /\ rolePermissions = <<>>
    /\ isLoading = TRUE
    /\ toastError = FALSE
    /\ visibleStaff = <<>>
    /\ AdminIdle
    /\ PagesIdle
    /\ AppIdle

(***************************************************************************)
(* Directory.fetchDirectoryAndAuth, one action per resumption after an     *)
(* await.  The remote tables are read when the response is produced.       *)
(***************************************************************************)
\* the rows of staff_profiles in the order of the query
allStaffRows == [i \in StaffIds |-> db_staff[i]]

\* await supabase.auth.getUser() resolves
GetUser ==
    /\ pc = "getUser"
    /\ pc' = IF authUser # NoUser THEN "profile" ELSE "staff"
    /\ UNCHANGED <<adminVars, pageVars, app>>
    /\ UNCHANGED <<authUser, db_staff, db_perms, currentRole, staff,
                   currentUserRole, currentUserLocations, rolePermissions,
                   isLoading, toastError, visibleStaff>>

\* the single-row fetch of the viewer's profile returns the row
FetchProfileOk ==
    /\ pc = "profile"
    /\ LET profile == db_staff[authUser]
       IN  /\ currentUserRole' = profile.role
           /\ currentUserLocations' = OrEmpty(profile.clinic_locations)
           /\ currentRole' = profile.role
    /\ pc' = IF currentRole' # NullArr /\ Cardinality(currentRole') > 0
             THEN "perms" ELSE "staff"
    /\ visibleStaff' = render(isLoading, currentUserRole',
                              currentUserLocations', rolePermissions, staff)
    /\ UNCHANGED <<adminVars, pageVars, app>>
    /\ UNCHANGED <<authUser, db_staff, db_perms, staff, rolePermissions,
                   isLoading, toastError>>

\* the single-row fetch returns data = null (no row, or the request failed)
FetchProfileNone ==
    /\ pc = "profile"
    /\ pc' = "staff"
    /\ UNCHANGED <<adminVars, pageVars, app>>
    /\ UNCHANGED <<authUser, db_staff, db_perms, currentRole, staff,
                   currentUserRole, currentUserLocations, rolePermissions,
                   isLoading, toastError, visibleStaff>>

\* .in('viewer_role', currentRole) returns the matching rows, in any order
FetchPermsOk ==
    /\ pc = "perms"
    /\ \E perms \in Orderings({r \in db_perms : r.viewer_role \in currentRole}) :
          rolePermissions' = perms
    /\ pc' = "staff"
    /\ visibleStaff' = render(isLoading, currentUserRole,
                              currentUserLocations, rolePermissions', staff)
    /\ UNCHANGED <<adminVars, pageVars, app>>
    /\ UNCHANGED <<authUser, db_staff, db_perms, currentRole, staff,
                   currentUserRole, currentUserLocations, isLoading,
                   toastError>>

\* a load that falls back to rules admitting every department with every
\* field when the permission fetch returns data = null
FetchPermsNone_AllowsAll ==
    /\ pc = "perms"
    /\ \E vr \in currentRole :
          rolePermissions' =
              <<[viewer_role |-> vr, target_department |-> "clinical",
                 can_view |-> TRUE, visible_fields |-> FieldNames],
                [viewer_role |-> vr, target_department |-> "finance",
                 can_view |-> TRUE, visible_fields |-> FieldNames]>>
    /\ pc' = "staff"
    /\ visibleStaff' = render(isLoading, currentUserRole,
                              currentUserLocations, rolePermissions', staff)
    /\ UNCHANGED <<adminVars, pageVars, app>>
    /\ UNCHANGED <<authUser, db_staff, db_perms, currentRole, staff,
                   currentUserRole, currentUserLocations, isLoading,
                   toastError>>

\* the permission fetch returns data = null
FetchPermsNone ==
    /\ pc = "perms"
    /\ pc' = "staff"
    /\ UNCHANGED <<adminVars, pageVars, app>>
    /\ UNCHANGED <<authUser, db_staff, db_perms, currentRole, staff,
                   currentUserRole, currentUserLocations, rolePermissions,
                   isLoading, toastError, visibleStaff>>

\* the roster fetch returns the rows; finally clears the loading flag
FetchStaffOk ==
    /\ pc = "staff"
    /\ staff' = allStaffRows
    /\ isLoading' = FALSE
    /\ pc' = "done"
    /\ visibleStaff' = render(isLoading', currentUserRole,
                              currentUserLocations, rolePermissions, staff')
    /\ UNCHANGED <<adminVars, pageVars, app>>
    /\ UNCHANGED <<authUser, db_staff, db_perms, currentRole,
                   currentUserRole, currentUserLocations, rolePermissions,
                   toastError>>

\* the roster fetch returns staffError: throw, catch, toast, finally
FetchStaffError ==
    /\ pc = "staff"
    /\ toastError' = TRUE
    /\ isLoading' = FALSE
    /\ pc' = "done"
    /\ visibleStaff' = render(isLoading', currentUserRole,
                              currentUserLocations, rolePermissions, staff)
    /\ UNCHANGED <<adminVars, pageVars, app>>
    /\ UNCHANGED <<authUser, db_staff, db_perms, currentRole, staff,
                   currentUserRole, currentUserLocations, rolePermissions>>

\* an awaited call rejects: catch, toast, finally
FetchThrows ==
    /\ pc \in {"getUser", "profile", "perms", "staff"}
    /\ toastError' = TRUE
    /\ isLoading' = FALSE
    /\ pc' = "done"
    /\ visibleStaff' = render(isLoading', currentUserRole,
                              currentUserLocations, rolePermissions, staff)
    /\ UNCHANGED <<adminVars, pageVars, app>>
    /\ UNCHANGED <<authUser, db_staff, db_perms, currentRole, staff,
                   currentUserRole, currentUserLocations, rolePermissions>>

Next ==
    \/ GetUser
    \/ FetchProfileOk
    \/ FetchProfileNone
    \/ FetchPermsOk
    \/ FetchPermsNone
    \/ FetchStaffOk
    \/ FetchStaffError
    \/ FetchThrows

Spec == Init /\ [][Next]_vars

TypeOK ==
    /\ authUser \in {NoUser} \cup StaffIds
    /\ db_perms \in PermissionTables
    /\ pc \in {"getUser", "profile", "perms", "staff", "done"}
    /\ isLoading \in BOOLEAN
    /\ toastError \in BOOLEAN
    /\ UniqueKey(db_perms)
    /\ Range(rolePermissions) \subseteq RolePermission
    /\ Len(rolePermissions) <= MaxRules
    /\ Len(staff) \in {0, MaxStaff}
    /\ visibleStaff = render(isLoading, currentUserRole, currentUserLocations,
                             rolePermissions, staff)

(***************************************************************************)
(* Vocabulary of the properties.                                           *)
(***************************************************************************)
\* the evaluator on the current state of the Directory
Result ==
    getVisibleStaffAndMasking(currentUserRole, currentUserLocations,
                              rolePermissions, staff)

ResultIds == {Result[i].id : i \in DOMAIN Result}

\* the viewer holds at least one role
HasRoles == currentUserRole # NullArr /\ currentUserRole # {}

\* the loaded rules whose target_department is the person's department
RulesFor(person) ==
    {r \in Range(rolePermissions) : r.target_department = personDept(person)}

\* the fetched row a returned record was made from
Fetched(rec) == CHOOSE p \in Range(staff) : p.id = rec.id

\* the viewer has no location restriction on the person
LocationAdmits(person) ==
    \/ "management" \notin currentUserRole
    \/ "Headquarter" \in currentUserLocations
    \/ OrEmpty(person.clinic_locations) \cap currentUserLocations # {}

Loaded == pc = "done" /\ ~isLoading /\ staff # <<>>

(***************************************************************************)
(* The loaded data in the schema of the single-role Directory: a viewer    *)
(* with exactly one role has that role as a string, the location-scoped    *)
(* role is named clinic_manager and the phone is named phone_number.       *)
(***************************************************************************)
V1RoleName(r) == IF r = "management" THEN "clinic_manager" ELSE r

V1FieldName(f) == IF f = "work_phone" THEN "phone_number" ELSE f

V1RoleOf(role) ==
    IF role # NullArr /\ Cardinality(role) = 1
    THEN V1RoleName(CHOOSE r \in role : TRUE)
    ELSE NULL

V1Row(p) ==
    [id |-> p.id, first_name |-> "", last_name |-> p.legal_last_name,
     role |-> V1RoleOf(p.role), department |-> p.department,
     clinic_locations |-> p.clinic_locations,
     phone_number |-> p.work_phone, bio |-> p.bio]

V1Rule(r) ==
    [viewer_role |-> V1RoleName(r.viewer_role),
     target_department |-> r.target_department, can_view |-> r.can_view,
     visible_fields |-> {V1FieldName(f) : f \in r.visible_fields}]

V1Rows(list) == [i \in DOMAIN list |-> V1Row(list[i])]
V1Rules(list) == [i \in DOMAIN list |-> V1Rule(list[i])]

V1Role == V1RoleOf(currentUserRole)
V1Perms == V1Rules(rolePermissions)
V1Staff == V1Rows(staff)

V1Result ==
    getVisibleStaffAndMaskingV1(V1Role, currentUserLocations, V1Perms, V1Staff)

V1RulesFor(person) ==
    {r \in Range(V1Perms) : r.target_department = personDept(person)}

V1LocationAdmits(person) ==
    \/ V1Role # "clinic_manager"
    \/ "Headquarter" \in currentUserLocations
    \/ OrEmpty(person.clinic_locations) \cap currentUserLocations # {}

(***************************************************************************)
(* C1: for a viewer holding several roles, a target that the location gate *)
(* admits is in the result whenever at least one held role has a loaded    *)
(* rule with can_view = true for the target's department, whatever the     *)
(* order of the loaded rules and whatever the other roles' rules say.      *)
(***************************************************************************)
C1_AnyRoleAdmits ==
    HasRoles =>
        \A p \in Range(staff) :
            ( /\ LocationAdmits(p)
              /\ \E r \in RulesFor(p) :
                    r.viewer_role \in currentUserRole /\ r.can_view )
            => p.id \in ResultIds

(***************************************************************************)
(* C2: for a viewer whose only role is R, a loaded rule (R, D) with        *)
(* can_view = false keeps every target of department D out of the result,  *)
(* whatever the rule's visible_fields holds.                               *)
(***************************************************************************)
C2_DenyRuleExcludesDepartment ==
    /\ (HasRoles /\ Cardinality(currentUserRole) = 1) =>
          \A r \in Range(rolePermissions) :
             (r.viewer_role \in currentUserRole /\ ~r.can_view) =>
                /\ \A p \in Range(staff) :
                      personDept(p) = r.target_department
                          => p.id \notin ResultIds
                /\ \A i \in DOMAIN Result :
                      personDept(Result[i]) # r.target_department
    \* the single-role Directory
    /\ V1Role # NULL =>
          \A r \in Range(V1Perms) :
             (r.viewer_role = V1Role /\ ~r.can_view) =>
                \A i \in DOMAIN V1Result :
                   personDept(V1Result[i]) # r.target_department

\* a single-role viewer has loaded a deny rule that still lists fields, the
\* roster holds a target of that department and another target is shown
C2_Witness ==
    /\ Loaded
    /\ HasRoles /\ Cardinality(currentUserRole) = 1
    /\ visibleStaff # <<>>
    /\ \E r \in Range(rolePermissions) :
          /\ ~r.can_view
          /\ r.visible_fields # {}
          /\ r.target_department = "finance"
          /\ \E p \in Range(staff) : personDept(p) = r.target_department

(***************************************************************************)
(* C3: for every returned target, phone and bio are each kept whenever at  *)
(* least one loaded rule matching the target's department lists the field  *)
(* name in visible_fields, and cleared to the empty string otherwise.      *)
(***************************************************************************)
C3_FieldKeptIfAnyRuleListsIt ==
    \A i \in DOMAIN Result :
        LET orig == Fetched(Result[i])
            Listed(f) == \E r \in RulesFor(orig) : f \in r.visible_fields
        IN  /\ Result[i].work_phone =
                  IF Listed("work_phone") THEN orig.work_phone ELSE ""
            /\ Result[i].bio = IF Listed("bio") THEN orig.bio ELSE ""

(***************************************************************************)
(* C4 as stated: for a single-role viewer and a rule with can_view = true  *)
(* for the target's department, the returned bio equals the fetched bio    *)
(* exactly when 'bio' is in visible_fields, and the returned phone equals   *)
(* the fetched phone exactly when 'work_phone' is in visible_fields.       *)
(***************************************************************************)
C4_UnchangedExactlyWhenListed ==
    (HasRoles /\ Cardinality(currentUserRole) = 1) =>
        \A i \in DOMAIN Result :
            LET orig == Fetched(Result[i])
            IN  \A r \in RulesFor(orig) :
                    /\ (Result[i].bio = orig.bio)
                          <=> ("bio" \in r.visible_fields)
                    /\ (Result[i].work_phone = orig.work_phone)
                          <=> ("work_phone" \in r.visible_fields)

(***************************************************************************)
(* C4 amended: for a single-role viewer and a rule with can_view = true    *)
(* for the target's department, the returned bio is the fetched bio when   *)
(* 'bio' is in visible_fields and the empty string otherwise, and the      *)
(* returned phone is the fetched phone when 'work_phone' is in             *)
(* visible_fields and the empty string otherwise.                          *)
(***************************************************************************)
C4_KeptWhenListedElseEmpty ==
    /\ (HasRoles /\ Cardinality(currentUserRole) = 1) =>
          \A p \in Range(staff) :
             \A r \in RulesFor(p) :
                (r.can_view /\ LocationAdmits(p)) =>
                    \E i \in DOMAIN Result :
                        /\ Result[i].id = p.id
                        /\ Result[i].bio =
                              IF "bio" \in r.visible_fields
                              THEN p.bio ELSE ""
                        /\ Result[i].work_phone =
                              IF "work_phone" \in r.visible_fields
                              THEN p.work_phone ELSE ""
    \* the single-role Directory, where the phone is phone_number
    /\ V1Role # NULL =>
          \A p \in Range(V1Staff) :
             \A r \in V1RulesFor(p) :
                (r.can_view /\ V1LocationAdmits(p)) =>
                    \E i \in DOMAIN V1Result :
                        /\ V1Result[i].id = p.id
                        /\ V1Result[i].bio =
                              IF "bio" \in r.visible_fields
                              THEN p.bio ELSE ""
                        /\ V1Result[i].phone_number =
                              IF "phone_number" \in r.visible_fields
                              THEN p.phone_number ELSE ""

\* the scenario of the specification: a single-role viewer, a rule with
\* can_view = true and visible_fields = [bio]; the target shows its bio and
\* an empty phone
C4_Witness ==
    /\ Loaded
    /\ HasRoles /\ Cardinality(currentUserRole) = 1
    /\ \E i \in DOMAIN visibleStaff :
          LET orig == Fetched(visibleStaff[i])
          IN  /\ \E r \in RulesFor(orig) :
                    r.can_view /\ r.visible_fields = {"bio"}
              /\ orig.bio # "" /\ orig.work_phone # ""
              /\ visibleStaff[i].bio = orig.bio
              /\ visibleStaff[i].work_phone = ""

(***************************************************************************)
(* C5: for a viewer whose role set is empty or not loaded the evaluator    *)
(* returns the empty list, whatever the roster, the rules (the stored rows *)
(* in any order) and the viewer's locations (none or all) are.             *)
(***************************************************************************)
C5_NoRolesNoRoster ==
    ~HasRoles =>
        /\ Result = <<>>
        /\ \A perms \in Orderings(db_perms) : \A locs \in {{}, Locations} :
              /\ getVisibleStaffAndMasking(currentUserRole, locs, perms,
                                           allStaffRows) = <<>>
              \* the single-role Directory: role null or ''
              /\ \A role \in {NULL, ""} :
                    getVisibleStaffAndMaskingV1(role, locs,
                        V1Rules(perms), V1Rows(allStaffRows)) = <<>>

\* a viewer without roles has finished loading a roster for which the store
\* holds an admitting rule, and nothing is shown
C5_Witness ==
    /\ Loaded
    /\ authUser # NoUser
    /\ currentUserRole = {}
    /\ \E p \in Range(staff) : \E r \in db_perms :
          r.can_view /\ r.target_department = personDept(p)
    /\ visibleStaff = <<>>

\* the first loaded rule of the person's department admits the person
DeptAdmits(person) ==
    \E j \in DOMAIN rolePermissions :
        /\ rolePermissions[j].target_department = personDept(person)
        /\ rolePermissions[j].can_view
        /\ \A k \in 1..(j - 1) :
              rolePermissions[k].target_department # personDept(person)

\* the first loaded rule of the person's department
FirstRule(person) ==
    rolePermissions[Min({j \in DOMAIN rolePermissions :
        rolePermissions[j].target_department = personDept(person)})]

Ids(list) == {list[i].id : i \in DOMAIN list}

(***************************************************************************)
(* C6: a viewer who holds management and whose locations do not contain    *)
(* 'Headquarter' never sees a target whose clinic_locations share no       *)
(* element with the viewer's (a target without locations included), even   *)
(* when a rule with can_view = true exists for the target's department.    *)
(***************************************************************************)
C6_ManagerSeesOnlySharedLocations ==
    ( /\ HasRoles
      /\ "management" \in currentUserRole
      /\ "Headquarter" \notin currentUserLocations )
    => \A p \in Range(staff) :
          OrEmpty(p.clinic_locations) \cap currentUserLocations = {}
              => p.id \notin ResultIds

\* the scenario of the specification: roles {management, clinical_provider}
\* at {Burnaby}, a target at {Richmond} whose department rule admits it, and
\* the target is not shown
C6_Witness ==
    /\ Loaded
    /\ currentUserRole = {"management", "clinical_provider"}
    /\ currentUserLocations = {"Burnaby"}
    /\ \E p \in Range(staff) :
          /\ p.clinic_locations = {"Richmond"}
          /\ DeptAdmits(p)
          /\ p.id \notin Ids(visibleStaff)

(***************************************************************************)
(* C7: for a viewer who does not hold management, or whose locations       *)
(* contain 'Headquarter', the visible targets are exactly the targets the   *)
(* department gate admits, and they stay the same when every target is     *)
(* given no clinic_locations, an empty list or all locations.              *)
(***************************************************************************)
C7_LocationGateOnlyForScopedViewers ==
    LET admitted == {p.id : p \in {q \in Range(staff) : DeptAdmits(q)}}
        Places == {NullArr, {}, Locations}
    IN  /\ ( /\ HasRoles
             /\ \/ "management" \notin currentUserRole
                \/ "Headquarter" \in currentUserLocations )
           => /\ ResultIds = admitted
              /\ \A L \in Places :
                    LET moved == [i \in DOMAIN staff |->
                                     [staff[i] EXCEPT !.clinic_locations = L]]
                    IN  Ids(getVisibleStaffAndMasking(currentUserRole,
                               currentUserLocations, rolePermissions, moved))
                        = admitted
        \* the single-role Directory, where the scoped role is clinic_manager
        /\ ( /\ V1Role # NULL
             /\ \/ V1Role # "clinic_manager"
                \/ "Headquarter" \in currentUserLocations )
           => /\ Ids(V1Result) = admitted
              /\ \A L \in Places :
                    LET moved == [i \in DOMAIN staff |->
                                    [V1Row(staff[i])
                                        EXCEPT !.clinic_locations = L]]
                    IN  Ids(getVisibleStaffAndMaskingV1(V1Role,
                               currentUserLocations, V1Perms, moved))
                        = admitted

\* a management viewer located at Headquarter is shown a target that shares
\* no location with the viewer
C7_Witness ==
    /\ Loaded
    /\ "management" \in currentUserRole
    /\ "Headquarter" \in currentUserLocations
    /\ \E i \in DOMAIN visibleStaff :
          OrEmpty(visibleStaff[i].clinic_locations)
              \cap currentUserLocations = {}

(***************************************************************************)
(* C8 as stated: once the roster is loaded, the viewer's own profile is in *)
(* the result with phone and bio as stored, whatever the gates and the     *)
(* matching rule say.                                                      *)
(***************************************************************************)
C8_OwnProfileExempt ==
    (Loaded /\ authUser # NoUser) =>
        \E i \in DOMAIN Result :
            /\ Result[i].id = authUser
            /\ Result[i].work_phone = db_staff[authUser].work_phone
            /\ Result[i].bio = db_staff[authUser].bio

(***************************************************************************)
(* C8 amended: the viewer's own profile is treated like every other        *)
(* target: it is in the result exactly when the viewer holds a role and    *)
(* the location gate and the department gate admit it, and its phone and   *)
(* bio are then kept only if the matching rule's visible_fields lists      *)
(* them, and are empty otherwise.                                          *)
(***************************************************************************)
C8_OwnProfileGatedAndRedacted ==
    \A p \in Range(staff) :
        p.id = authUser =>
            /\ p.id \in ResultIds
                  <=> (HasRoles /\ LocationAdmits(p) /\ DeptAdmits(p))
            /\ \A i \in DOMAIN Result :
                  Result[i].id = p.id =>
                      /\ Result[i].work_phone =
                            IF "work_phone" \in FirstRule(p).visible_fields
                            THEN p.work_phone ELSE ""
                      /\ Result[i].bio =
                            IF "bio" \in FirstRule(p).visible_fields
                            THEN p.bio ELSE ""

\* the viewer is shown the own profile with the stored phone kept and the
\* stored bio cleared
C8_Witness ==
    /\ Loaded
    /\ authUser # NoUser
    /\ \E i \in DOMAIN visibleStaff :
          /\ visibleStaff[i].id = authUser
          /\ db_staff[authUser].work_phone # ""
          /\ visibleStaff[i].work_phone = db_staff[authUser].work_phone
          /\ db_staff[authUser].bio # ""
          /\ visibleStaff[i].bio = ""

(***************************************************************************)
(* C9: a target whose department has no loaded rule, a department outside  *)
(* the enumeration or a missing department included, is not in the result, *)
(* and the result is the one obtained when a rule with can_view = false    *)
(* for that department, listing every field, is added in front of or       *)
(* behind the loaded rules.                                                *)
(***************************************************************************)
C9_NoRuleIsDeny ==
    LET res == Result
        ids == {res[i].id : i \in DOMAIN res}
    IN  \A p \in Range(staff) :
            RulesFor(p) = {} =>
                /\ p.id \notin ids
                /\ \A vr \in Roles :
                      LET deny == [viewer_role |-> vr,
                                   target_department |-> personDept(p),
                                   can_view |-> FALSE,
                                   visible_fields |-> FieldNames]
                      IN  /\ getVisibleStaffAndMasking(currentUserRole,
                                currentUserLocations,
                                <<deny>> \o rolePermissions, staff) = res
                          /\ getVisibleStaffAndMasking(currentUserRole,
                                currentUserLocations,
                                Append(rolePermissions, deny), staff) = res

\* the roster holds a target without department or with a department outside
\* the enumeration; it is not shown while another target is
C9_Witness ==
    /\ Loaded
    /\ visibleStaff # <<>>
    /\ \E p \in Range(staff) :
          /\ p.department \in {NULL, "Legal"}
          /\ RulesFor(p) = {}
          /\ p.id \notin Ids(visibleStaff)

(***************************************************************************)
(* C10: every returned record has the fields of the fetched row, and every *)
(* field other than work_phone and bio has the fetched value.              *)
(***************************************************************************)
C10_RedactionFrame ==
    \A i \in DOMAIN Result :
        /\ \E p \in Range(staff) : p.id = Result[i].id
        /\ LET orig == Fetched(Result[i])
           IN  /\ DOMAIN Result[i] = DOMAIN orig
               /\ \A f \in DOMAIN orig \ {"work_phone", "bio"} :
                     Result[i][f] = orig[f]

\* a target whose stored department is capitalised is shown with its phone
\* cleared and its department and license number as stored
C10_Witness ==
    /\ Loaded
    /\ \E i \in DOMAIN visibleStaff :
          LET orig == Fetched(visibleStaff[i])
          IN  /\ orig.department # personDept(orig)
              /\ visibleStaff[i].work_phone # orig.work_phone
              /\ visibleStaff[i].department = orig.department
              /\ visibleStaff[i].clinic_locations = orig.clinic_locations

(***************************************************************************)
(* AdminSettings: the editor of the visibility matrix, open in the         *)
(* browsers of Admins, over the one table role_permissions.                *)
(***************************************************************************)
\* handleToggle calls the model follows
MaxToggles == 2

\* const ROLES (two of the twelve)
ROLES == {"rmt", "clinic_manager"}
\* the checkboxes of a matrix row
ToggleFields == {"can_view", "phone_number", "bio"}
\* the role a profile can hold in staff_profiles: the string the page tests
\* for and another one
StoredRoles == {"director", "rmt"}
\* the rows of the matrix the administrators click in
MatrixRows == {"clinical"}

LoadFailed == "Failed to load settings."
ToggleFailed == "Failed to update visibility matrix"
ToggleDone == "Updated matrix successfully."

\* rows the table holds when the page is opened
AdminRows ==
    { [viewer_role |-> "rmt", target_department |-> "clinical",
       can_view |-> TRUE, visible_fields |-> {"bio"}],
      [viewer_role |-> "rmt", target_department |-> "finance",
       can_view |-> FALSE, visible_fields |-> {}],
      [viewer_role |-> "clinic_manager", target_department |-> "clinical",
       can_view |-> TRUE, visible_fields |-> {"phone_number", "bio"}] }

AdminTables == {T \in SUBSET AdminRows : Cardinality(T) <= MaxRules}

\* the rows of a table with the composite key of row
RulesAt(table, row) ==
    {r \in table : /\ r.viewer_role = row.viewer_role
                   /\ r.target_department = row.target_department}

\* an upsert with onConflict: 'viewer_role' alone
Upsert_KeyedOnRole(table, row) ==
    {r \in table : r.viewer_role # row.viewer_role} \cup {row}

\* an upsert that adds the row and leaves a row of the same key in place
Upsert_InsertOnly(table, row) == table \cup {row}

\* an upsert that keeps the fields the replaced row listed
Upsert_MergesFields(table, row) ==
    (table \ RulesAt(table, row))
        \cup {[row EXCEPT !.visible_fields =
                  @ \cup UNION {r.visible_fields : r \in RulesAt(table, row)}]}

\* .upsert(rowObject, { onConflict: 'viewer_role, target_department' })
Upsert(table, row) == (table \ RulesAt(table, row)) \cup {row}

\* useState initial values of AdminSettings
AdminMounted ==
    [pc |-> "getUser", isDirector |-> NULL, isLoading |-> TRUE,
     permissions |-> {}, error |-> NULL, successMessage |-> NULL,
     selectedRole |-> "rmt"]

\* the sessions and profiles of the administrators' browsers
AdminEnvs ==
    {[user |-> FALSE, role |-> NULL]}
        \cup [user : {TRUE}, role : StoredRoles]

DirectoryIdle ==
    /\ pc = "unmounted"
    /\ currentRole = NullArr
    /\ staff = <<>>
    /\ currentUserRole = NullArr
    /\ currentUserLocations = {}
    /\ rolePermissions = <<>>
    /\ isLoading = TRUE
    /\ toastError = FALSE
    /\ visibleStaff = <<>>

AdminInit ==
    /\ adminEnv \in {env \in [Admins -> AdminEnvs] :
                         env["admin_b"] = [user |-> TRUE, role |-> "director"]}
    /\ admin = [a \in Admins |-> AdminMounted]
    /\ db_perms \in AdminTables
    /\ calls = {}
    /\ writeLog = <<>>
    /\ toggles = 0
    /\ authUser = NoUser
    /\ db_staff = <<>>
    /\ DirectoryIdle
    /\ PagesIdle
    /\ AppIdle

\* the rule of the matrix row: permissions.find(...)
existingRule(perms, role, dept) ==
    LET hits == {p \in perms : p.viewer_role = role
                                  /\ p.target_department = dept}
    IN  IF hits = {} THEN undefined ELSE CHOOSE p \in hits : TRUE

\* permRule?.can_view || false
isVisible(perms, role, dept) ==
    LET permRule == existingRule(perms, role, dept)
    IN  permRule # undefined /\ permRule.can_view

\* the checked state of a checkbox, which the click passes as currentValue
checked(perms, role, dept, field) ==
    LET permRule == existingRule(perms, role, dept)
    IN  IF field = "can_view" THEN isVisible(perms, role, dept)
        ELSE permRule # undefined /\ field \in permRule.visible_fields

\* a handleToggle that clears the field list when it hides the department
rowObject_HideClearsFields(perms, role, dept, field, currentValue) ==
    LET rule == existingRule(perms, role, dept)
        oldCanView == IF rule # undefined THEN rule.can_view ELSE FALSE
        oldFields == IF rule # undefined THEN rule.visible_fields ELSE {}
    IN  [viewer_role |-> role, target_department |-> dept,
         can_view |-> IF field = "can_view" THEN ~currentValue
                      ELSE oldCanView,
         visible_fields |-> IF field = "can_view"
                            THEN IF currentValue THEN {} ELSE oldFields
                            ELSE IF ~currentValue THEN oldFields \cup {field}
                            ELSE oldFields \ {field}]

\* a handleToggle that lists every field when it creates a rule
rowObject_NewRuleListsAll(perms, role, dept, field, currentValue) ==
    LET rule == existingRule(perms, role, dept)
        oldCanView == IF rule # undefined THEN rule.can_view ELSE FALSE
        oldFields == IF rule # undefined THEN rule.visible_fields
                     ELSE ToggleFields \ {"can_view"}
    IN  [viewer_role |-> role, target_department |-> dept,
         can_view |-> IF field = "can_view" THEN ~currentValue
                      ELSE oldCanView,
         visible_fields |-> IF field = "can_view" THEN oldFields
                            ELSE IF ~currentValue THEN oldFields \cup {field}
                            ELSE oldFields \ {field}]

\* the row handleToggle builds
rowObject(perms, role, dept, field, currentValue) ==
    LET rule == existingRule(perms, role, dept)
        oldCanView == IF rule # undefined THEN rule.can_view ELSE FALSE
        oldFields == IF rule # undefined THEN rule.visible_fields ELSE {}
    IN  [viewer_role |-> role, target_department |-> dept,
         can_view |-> IF field = "can_view" THEN ~currentValue
                      ELSE oldCanView,
         visible_fields |-> IF field = "can_view" THEN oldFields
                            ELSE IF ~currentValue THEN oldFields \cup {field}
                            ELSE oldFields \ {field}]

\* if (isLoading) spinner; if (isDirector === false) Navigate; else the matrix
EditorShown(a) ==
    /\ admin[a].pc # "unmounted"
    /\ ~admin[a].isLoading
    /\ admin[a].isDirector # "false"

NotAdmin == <<db_staff, directoryVars, pageVars, app>>

\* getUser resolves: without a user the page is refused
VerifyGetUser(a) ==
    /\ admin[a].pc = "getUser"
    /\ admin' = [admin EXCEPT ![a] =
                    IF adminEnv[a].user
                    THEN [@ EXCEPT !.pc = "profile"]
                    ELSE [@ EXCEPT !.isDirector = "false",
                                   !.isLoading = FALSE, !.pc = "done"]]
    /\ UNCHANGED <<adminEnv, db_perms, calls, writeLog, toggles, NotAdmin>>

\* the profile fetch resolves with the stored role or with data = null
VerifyProfile(a) ==
    /\ admin[a].pc = "profile"
    /\ \E role \in {adminEnv[a].role, NULL} :
          admin' = [admin EXCEPT ![a] =
                       IF role # "director"
                       THEN [@ EXCEPT !.isDirector = "false",
                                      !.isLoading = FALSE, !.pc = "done"]
                       ELSE [@ EXCEPT !.isDirector = "true",
                                      !.pc = "fetchPermissions"]]
    /\ UNCHANGED <<adminEnv, db_perms, calls, writeLog, toggles, NotAdmin>>

\* fetchPermissions returns the rows of the table
VerifyFetchPermissions(a) ==
    /\ admin[a].pc = "fetchPermissions"
    /\ admin' = [admin EXCEPT ![a] =
                    [@ EXCEPT !.permissions = db_perms,
                              !.isLoading = FALSE, !.pc = "done"]]
    /\ UNCHANGED <<adminEnv, db_perms, calls, writeLog, toggles, NotAdmin>>

\* an awaited call rejects or fetchPermissions throws its error: catch,
\* finally
VerifyThrows(a) ==
    /\ admin[a].pc \in {"getUser", "profile", "fetchPermissions"}
    /\ admin' = [admin EXCEPT ![a] =
                    [@ EXCEPT !.error = LoadFailed,
                              !.isLoading = FALSE, !.pc = "done"]]
    /\ UNCHANGED <<adminEnv, db_perms, calls, writeLog, toggles, NotAdmin>>

\* a click on a checkbox of the matrix: handleToggle up to the upsert
HandleToggle(a, dept, field) ==
    /\ EditorShown(a)
    /\ toggles < MaxToggles
    /\ field # "can_view" =>
          isVisible(admin[a].permissions, admin[a].selectedRole, dept)
    /\ LET perms == admin[a].permissions
           role == admin[a].selectedRole
           row == rowObject(perms, role, dept, field,
                            checked(perms, role, dept, field))
           call == [who |-> a, dept |-> dept, field |-> field, row |-> row,
                    stage |-> "upsert",
                    storeBefore |-> RulesAt(db_perms, row),
                    localBefore |-> perms]
       IN  /\ call \notin calls
           /\ calls' = calls \cup {call}
    /\ toggles' = toggles + 1
    /\ admin' = [admin EXCEPT ![a] =
                    [@ EXCEPT !.error = NULL, !.successMessage = NULL]]
    /\ UNCHANGED <<adminEnv, db_perms, writeLog, NotAdmin>>

\* the store applies the upsert; handleToggle goes on to fetchPermissions
UpsertOk(c) ==
    /\ c.stage = "upsert"
    /\ db_perms' = Upsert(db_perms, c.row)
    /\ writeLog' = Append(writeLog, [who |-> c.who, row |-> c.row])
    /\ calls' = (calls \ {c}) \cup {[c EXCEPT !.stage = "fetch"]}
    /\ UNCHANGED <<adminEnv, admin, toggles, NotAdmin>>

\* the upsert returns upsertError or rejects: catch
UpsertFails(c) ==
    /\ c.stage = "upsert"
    /\ admin' = [admin EXCEPT ![c.who] = [@ EXCEPT !.error = ToggleFailed]]
    /\ calls' = calls \ {c}
    /\ UNCHANGED <<adminEnv, db_perms, writeLog, toggles, NotAdmin>>

\* fetchPermissions after the upsert returns the rows of the table
RefetchOk(c) ==
    /\ c.stage = "fetch"
    /\ admin' = [admin EXCEPT ![c.who] =
                    [@ EXCEPT !.permissions = db_perms,
                              !.successMessage = ToggleDone]]
    /\ calls' = calls \ {c}
    /\ UNCHANGED <<adminEnv, db_perms, writeLog, toggles, NotAdmin>>

\* fetchPermissions after the upsert throws: catch
RefetchFails(c) ==
    /\ c.stage = "fetch"
    /\ admin' = [admin EXCEPT ![c.who] = [@ EXCEPT !.error = ToggleFailed]]
    /\ calls' = calls \ {c}
    /\ UNCHANGED <<adminEnv, db_perms, writeLog, toggles, NotAdmin>>

AdminNext ==
    \/ \E a \in Admins : VerifyGetUser(a)
    \/ \E a \in Admins : VerifyProfile(a)
    \/ \E a \in Admins : VerifyFetchPermissions(a)
    \/ \E a \in Admins : VerifyThrows(a)
    \/ \E a \in Admins, dept \in MatrixRows, field \in ToggleFields :
          HandleToggle(a, dept, field)
    \/ \E c \in calls : UpsertOk(c)
    \/ \E c \in calls : UpsertFails(c)
    \/ \E c \in calls : RefetchOk(c)
    \/ \E c \in calls : RefetchFails(c)

AdminSpec == AdminInit /\ [][AdminNext]_vars

AdminTypeOK ==
    /\ \A a \in Admins :
          /\ admin[a].pc \in {"getUser", "profile", "fetchPermissions", "done"}
          /\ admin[a].isDirector \in {NULL, "true", "false"}
          /\ admin[a].isLoading \in BOOLEAN
          /\ admin[a].error \in {NULL, LoadFailed, ToggleFailed}
          /\ UniqueKey(admin[a].permissions)
    /\ UniqueKey(db_perms)
    /\ toggles \in 0..MaxToggles
    /\ Len(writeLog) <= toggles
    /\ Cardinality(calls) <= toggles

(***************************************************************************)
(* Properties of AdminSettings.                                            *)
(***************************************************************************)
\* C11: the matrix editor is shown, and handleToggle is invoked, only for an
\* administrator whom verifyAndLoadData has confirmed (isDirector = true);
\* after every other outcome of verifyAndLoadData (no user, another role, a
\* thrown failure) the editor is not shown.
C11_EditorOnlyForVerifiedAdministrator ==
    /\ \A a \in Admins : EditorShown(a) => admin[a].isDirector = "true"
    /\ \A c \in calls : admin[c.who].isDirector = "true"

\* the rows the open editors would send on a click, and the rows in flight
SendableRows ==
    {c.row : c \in calls} \cup
    {rowObject(admin[a].permissions, admin[a].selectedRole, dept, field,
               checked(admin[a].permissions, admin[a].selectedRole, dept,
                       field)) :
        a \in {b \in Admins : EditorShown(b)},
        dept \in MatrixRows, field \in ToggleFields}

\* C12: upserting the same (viewer_role, target_department, can_view,
\* visible_fields) row twice leaves role_permissions as upserting it once
\* does, with exactly one rule for the composite key, holding the row's
\* values; and once the table has applied the same row twice in succession
\* it holds that one rule.
C12_UpsertTwiceIsUpsertOnce ==
    /\ \A row \in SendableRows :
          LET once == Upsert(db_perms, row)
              twice == Upsert(once, row)
          IN  /\ twice = once
              /\ RulesAt(twice, row) = {row}
              /\ twice \ {row} = db_perms \ RulesAt(db_perms, row)
    /\ \A i \in DOMAIN writeLog :
          (i = Len(writeLog) /\ i > 1 /\ writeLog[i].row = writeLog[i - 1].row)
              => RulesAt(db_perms, writeLog[i].row) = {writeLog[i].row}

\* the table has applied the same row twice in succession, sent by the two
\* administrators, over an older rule of the key with other values
C12_Witness ==
    /\ Len(writeLog) = 2
    /\ writeLog[1].row = writeLog[2].row
    /\ writeLog[1].who # writeLog[2].who
    /\ \E c \in calls : /\ c.row = writeLog[2].row
                        /\ c.storeBefore # {}
                        /\ c.storeBefore # {c.row}

\* C13: when two administrators, each from the own loaded copy, toggle the
\* same (viewer_role, target_department) rule, the stored rule after both
\* upserts is exactly the row of the later upsert: for every key written,
\* role_permissions holds the row of the last upsert of that key and nothing
\* of an earlier one.
C13_LastUpsertWins ==
    \A i \in DOMAIN writeLog :
        (\A j \in DOMAIN writeLog :
            j > i => RulesAt({writeLog[j].row}, writeLog[i].row) = {})
        => RulesAt(db_perms, writeLog[i].row) = {writeLog[i].row}

\* both administrators have written the rule from their copies, and the
\* earlier row listed a field that the later row does not
C13_Witness ==
    /\ Len(writeLog) = 2
    /\ writeLog[1].who # writeLog[2].who
    /\ RulesAt({writeLog[1].row}, writeLog[2].row) # {}
    /\ ~(writeLog[1].row.visible_fields \subseteq writeLog[2].row.visible_fields)
    /\ \E c1, c2 \in calls :
          /\ c1.who = writeLog[1].who /\ c1.row = writeLog[1].row
          /\ c2.who = writeLog[2].who /\ c2.row = writeLog[2].row
          /\ c1.localBefore = c2.localBefore

\* C15: whenever handleToggle ends with 'Failed to update visibility matrix',
\* the stored rule and the local permissions list are what they were before
\* the toggle, also when the upsert succeeded and the following
\* fetchPermissions failed.
C15_FailedToggleChangedNothing ==
    [][\A c \in calls :
          (UpsertFails(c) \/ RefetchFails(c))
              => /\ admin'[c.who].error = ToggleFailed
                 /\ RulesAt(db_perms', c.row) = c.storeBefore
                 /\ admin'[c.who].permissions = c.localBefore]_vars

(***************************************************************************)
(* The Dashboard (the viewer's own profile and HR file) and the handlers   *)
(* of the loaded Directory (HR modal, profile editor), over staff_profiles *)
(* and hr_records.                                                         *)
(***************************************************************************)
\* a state that holds no object: useState<...| null>(null)
nullObject == [null |-> TRUE]
\* no id: useState<string | null>(null)
NoId == 0

\* the three roles that open HR files
PrivilegedRoles == {"hr", "hr_management", "executive"}

\* the staff rows of the portal, in the order of legal_last_name
PortalRows ==
    << [role |-> {"executive"}, department |-> "finance",
        clinic_locations |-> {"Headquarter"}, work_phone |-> "604-555-0201",
        bio |-> "Director", job_title |-> "Director",
        legal_last_name |-> "Fox", display_name |-> "A. Fox",
        practitioner_license_number |-> ""],
       [role |-> {"hr"}, department |-> "finance",
        clinic_locations |-> {"Burnaby"}, work_phone |-> "604-555-0202",
        bio |-> "", job_title |-> "HR Advisor",
        legal_last_name |-> "Grant", display_name |-> NULL,
        practitioner_license_number |-> ""],
       [role |-> {"clinical_provider"}, department |-> "clinical",
        clinic_locations |-> {"Burnaby"}, work_phone |-> "604-555-0203",
        bio |-> "Physiotherapist", job_title |-> "Physiotherapist",
        legal_last_name |-> "Hill", display_name |-> NULL,
        practitioner_license_number |-> "L-300"] >>

PortalTables ==
    {[i \in StaffIds |-> WithId(PortalRows[f[i]], i)] :
        f \in {g \in [StaffIds -> DOMAIN PortalRows] :
                  \A i, j \in StaffIds : i <= j => g[i] <= g[j]}}

\* the rules a loaded Directory holds: none, or every department admitted,
\* with every field or with no field
PortalRules ==
    {<<>>,
     <<[viewer_role |-> "executive", target_department |-> "clinical",
        can_view |-> TRUE, visible_fields |-> FieldNames],
       [viewer_role |-> "executive", target_department |-> "finance",
        can_view |-> TRUE, visible_fields |-> FieldNames]>>,
     <<[viewer_role |-> "executive", target_department |-> "clinical",
        can_view |-> TRUE, visible_fields |-> {}],
       [viewer_role |-> "executive", target_department |-> "finance",
        can_view |-> TRUE, visible_fields |-> {}]>>}

\* what is typed into a field of a form
Typed == "edited"
\* the fields of the Dashboard form
FormFields == {"work_phone", "bio", "legal_last_name", "display_name"}
\* the inputs of the form that are disabled or not rendered unless isHR
HrOnlyFields == {"legal_last_name", "display_name"}
\* the role checkbox the viewer clicks in the Directory editor
EditRoles == {"clinical_provider"}

HrDeniedOrNotFound == "Access denied or HR record not found."
HrCouldNotLoad == "Could not load HR data."

\* the responses of a single-row fetch of hr_records by id: the row, no row
\* (PGRST116), a refusal by the store, reported as an error or as no row,
\* and any other error
HrResponses(id) ==
    (IF id \in db_hr
     THEN {[cause |-> "found", data |-> [id |-> id], code |-> NULL]}
     ELSE {[cause |-> "missing", data |-> nullObject, code |-> "PGRST116"]})
    \cup [cause : {"denied"}, data : {nullObject}, code : {"42501", "PGRST116"}]
    \cup {[cause |-> "failed", data |-> nullObject, code |-> ""]}

\* a handler that reports a refusal apart from a missing record
hrErrorDirectory_SeparatesDenied(resp, prev) ==
    IF resp.code = NULL THEN prev
    ELSE IF resp.cause = "denied" THEN "Access denied." ELSE HrDeniedOrNotFound

\* Directory.handleViewHrFile: if (error) throw error; catch: setHrError
hrErrorDirectory(resp, prev) ==
    IF resp.code # NULL THEN HrDeniedOrNotFound ELSE prev

\* Dashboard.fetchHrRecord: if (error && error.code !== 'PGRST116')
hrErrorDashboard(resp, prev) ==
    IF resp.code # NULL /\ resp.code # "PGRST116" THEN HrCouldNotLoad ELSE prev

\* value || ''
OrBlank(value) == IF value = NULL THEN "" ELSE value

\* an update that is not filtered by id
update_NoFilter(table, id, values) ==
    [i \in DOMAIN table |-> values @@ table[i]]

\* .update(values).eq('id', id)
update(table, id, values) ==
    [i \in DOMAIN table |->
        IF table[i].id = id THEN values @@ table[i] ELSE table[i]]

\* a privilege test that any role passes
isPrivileged_AnyRole(role) == role # NullArr /\ role # {}

\* includes('hr') || includes('hr_management') || includes('executive')
isPrivileged(role) == role \cap PrivilegedRoles # {}

\* Dashboard.isHR
isHR == dash.profileData # nullObject /\ isPrivileged(dash.profileData.role)
\* Directory.isHrOrExec
isHrOrExec == isPrivileged(currentUserRole)
\* Directory.isExecutive
isExecutive == "executive" \in currentUserRole

\* useState initial values of the Dashboard
DashMounted ==
    [pc |-> "mount", hrpc |-> "mount", profileData |-> nullObject,
     isLoading |-> TRUE, isEditing |-> FALSE, isSaving |-> FALSE,
     formData |-> [f \in FormFields |-> ""], hrRecord |-> nullObject,
     isHrLoading |-> FALSE, hrError |-> NULL, hrCause |-> "none",
     toast |-> NULL, save |-> nullObject]

\* what the viewer does on a visit of the Directory: open HR files, or edit
\* profiles (the modal and the editor share no state)
Visits == {"hr files", "editor"}

\* useState initial values of the Directory's modal and editor
DirectoryHandlers(visit) ==
    [visit |-> visit, viewingHrId |-> NoId, hrRecord |-> nullObject, hrError |-> NULL,
     isHrLoading |-> FALSE, hrCalls |-> {}, hrCause |-> "none",
     editingUserId |-> NoId, editRole |-> {}, editDept |-> "",
     isSaving |-> FALSE, save |-> nullObject, toast |-> NULL]

\* the Directory after fetchDirectoryAndAuth has loaded the viewer's
\* profile, rules and the roster
DirectoryLoaded ==
    /\ pc = "done"
    /\ currentRole = IF authUser # NoUser THEN db_staff[authUser].role
                     ELSE NullArr
    /\ currentUserRole = currentRole
    /\ currentUserLocations =
          IF authUser # NoUser THEN OrEmpty(db_staff[authUser].clinic_locations)
          ELSE {}
    /\ rolePermissions \in PortalRules
    /\ staff = allStaffRows
    /\ isLoading = FALSE
    /\ toastError = FALSE
    /\ visibleStaff = render(isLoading, currentUserRole, currentUserLocations,
                             rolePermissions, staff)

\* one of the two pages is mounted for the session user
PageInit ==
    /\ authUser \in {NoUser} \cup StaffIds
    /\ db_staff \in PortalTables
    /\ db_hr \in SUBSET StaffIds
    /\ db_perms = {}
    /\ requests = {}
    /\ \/ dash = DashMounted /\ dirx = Unmounted /\ DirectoryIdle
       \/ /\ dash = Unmounted
          /\ \E visit \in Visits : dirx = DirectoryHandlers(visit)
          /\ DirectoryLoaded
    /\ AdminIdle
    /\ AppIdle

NotDash == <<db_perms, db_hr, directoryVars, dirx, adminVars, app>>

\* the effect of the Dashboard runs fetchProfile and fetchHrRecord up to
\* their awaits; without a user neither issues a request
DashMount ==
    /\ dash # Unmounted /\ dash.pc = "mount"
    /\ IF authUser = NoUser
       THEN /\ dash' = [dash EXCEPT !.isLoading = FALSE, !.pc = "done",
                                    !.hrpc = "done"]
            /\ UNCHANGED requests
       ELSE /\ dash' = [dash EXCEPT !.isLoading = TRUE, !.pc = "fetch",
                                    !.isHrLoading = TRUE, !.hrpc = "fetch"]
            /\ requests' = requests \cup
                  {[page |-> "dashboard", table |-> "staff_profiles",
                    op |-> "select", id |-> authUser],
                   [page |-> "dashboard", table |-> "hr_records",
                    op |-> "select", id |-> authUser]}
    /\ UNCHANGED <<db_staff, NotDash>>

\* fetchProfile: the single-row fetch returns the row
DashFetchProfileOk ==
    /\ dash # Unmounted /\ dash.pc = "fetch"
    /\ LET data == db_staff[authUser]
       IN  dash' = [dash EXCEPT
               !.profileData =
                   [data EXCEPT !.clinic_locations = OrEmpty(@)],
               !.isLoading = FALSE, !.pc = "done"]
    /\ UNCHANGED <<db_staff, requests, NotDash>>

\* fetchProfile: the fetch returns fetchError
DashFetchProfileError ==
    /\ dash # Unmounted /\ dash.pc = "fetch"
    /\ dash' = [dash EXCEPT !.toast = "error", !.isLoading = FALSE,
                            !.pc = "done"]
    /\ UNCHANGED <<db_staff, requests, NotDash>>

\* fetchProfile: the awaited fetch rejects; nothing after the await runs
DashFetchProfileThrows ==
    /\ dash # Unmounted /\ dash.pc = "fetch"
    /\ dash' = [dash EXCEPT !.pc = "rejected"]
    /\ UNCHANGED <<db_staff, requests, NotDash>>

\* fetchHrRecord: the fetch of the viewer's own record responds
DashFetchHrRecord ==
    /\ dash # Unmounted /\ dash.hrpc = "fetch"
    /\ \E resp \in HrResponses(authUser) :
          dash' = [dash EXCEPT
              !.hrError = hrErrorDashboard(resp, @),
              !.hrRecord = IF hrErrorDashboard(resp, NULL) = NULL
                              /\ resp.data # nullObject
                           THEN resp.data ELSE @,
              !.hrCause = resp.cause,
              !.isHrLoading = FALSE, !.hrpc = "done"]
    /\ UNCHANGED <<db_staff, requests, NotDash>>

\* fetchHrRecord: the awaited fetch rejects
DashFetchHrThrows ==
    /\ dash # Unmounted /\ dash.hrpc = "fetch"
    /\ dash' = [dash EXCEPT !.hrpc = "rejected"]
    /\ UNCHANGED <<db_staff, requests, NotDash>>

\* the profile card with its buttons is rendered
DashCardShown ==
    dash # Unmounted /\ ~dash.isLoading /\ dash.profileData # nullObject

\* handleEditClick
DashEditClick ==
    /\ DashCardShown /\ ~dash.isEditing
    /\ dash' = [dash EXCEPT
           !.formData = [f \in FormFields |-> OrBlank(dash.profileData[f])],
           !.isEditing = TRUE]
    /\ UNCHANGED <<db_staff, requests, NotDash>>

\* onChange of an input of the form; the legal names are disabled and the
\* display name is not rendered unless isHR
DashSetFormData(f) ==
    /\ DashCardShown /\ dash.isEditing
    /\ f \in HrOnlyFields => isHR
    /\ dash.formData[f] # Typed
    /\ dash' = [dash EXCEPT !.formData[f] = Typed]
    /\ UNCHANGED <<db_staff, requests, NotDash>>

\* handleCancelClick; the button is disabled while saving
DashCancelClick ==
    /\ DashCardShown /\ dash.isEditing /\ ~dash.isSaving
    /\ dash' = [dash EXCEPT !.isEditing = FALSE]
    /\ UNCHANGED <<db_staff, requests, NotDash>>

\* handleSaveClick up to the await of the update
DashSaveClick ==
    /\ DashCardShown /\ dash.isEditing /\ ~dash.isSaving
    /\ authUser # NoUser
    /\ dash' = [dash EXCEPT !.isSaving = TRUE,
                            !.save = [sent |-> dash.formData]]
    /\ requests' = requests \cup
          {[page |-> "dashboard", table |-> "staff_profiles",
            op |-> "update", id |-> authUser]}
    /\ UNCHANGED <<db_staff, NotDash>>

\* the store applies the update; handleSaveClick takes the values it sent
DashSaveOk ==
    /\ dash # Unmounted /\ dash.save # nullObject
    /\ db_staff' = update(db_staff, authUser, dash.save.sent)
    /\ dash' = [dash EXCEPT
           !.isSaving = FALSE,
           !.profileData = IF @ # nullObject THEN dash.save.sent @@ @ ELSE @,
           !.isEditing = FALSE, !.toast = "success", !.save = nullObject]
    /\ UNCHANGED <<requests, NotDash>>

\* the update returns saveError
DashSaveError ==
    /\ dash # Unmounted /\ dash.save # nullObject
    /\ dash' = [dash EXCEPT !.isSaving = FALSE, !.toast = "error",
                            !.save = nullObject]
    /\ UNCHANGED <<db_staff, requests, NotDash>>

\* the awaited update rejects; nothing after the await runs
DashSaveThrows ==
    /\ dash # Unmounted /\ dash.save # nullObject
    /\ dash' = [dash EXCEPT !.save = nullObject]
    /\ UNCHANGED <<db_staff, requests, NotDash>>

DashNext ==
    \/ DashMount
    \/ DashFetchProfileOk
    \/ DashFetchProfileError
    \/ DashFetchProfileThrows
    \/ DashFetchHrRecord
    \/ DashFetchHrThrows
    \/ DashEditClick
    \/ \E f \in FormFields : DashSetFormData(f)
    \/ DashCancelClick
    \/ DashSaveClick
    \/ DashSaveOk
    \/ DashSaveError
    \/ DashSaveThrows

NotDirectoryHandlers == <<db_perms, db_hr, dash, adminVars, app>>

\* the cards the Directory renders
ShownIds == {visibleStaff[i].id : i \in DOMAIN visibleStaff}

\* the details block of a card: !isEditing && (person.work_phone ||
\* person.bio || person.practitioner_license_number)
CardDetailsShown(person) ==
    /\ dirx.editingUserId # person.id
    /\ \/ person.work_phone # ""
       \/ person.bio # ""
       \/ person.practitioner_license_number # ""

\* the 'View HR File' button, rendered inside the details block
ViewHrFileOffered(person) ==
    CardDetailsShown(person) /\ isHrOrExec /\ dirx.editingUserId # person.id

\* handleViewHrFile up to the await, from the button of a card
HandleViewHrFile(personId) ==
    /\ dirx # Unmounted /\ dirx.visit = "hr files"
    /\ \E i \in DOMAIN visibleStaff :
          visibleStaff[i].id = personId /\ ViewHrFileOffered(visibleStaff[i])
    /\ dirx' = [dirx EXCEPT !.viewingHrId = personId, !.isHrLoading = TRUE,
                            !.hrError = NULL, !.hrRecord = nullObject,
                            !.hrCause = "none",
                            !.hrCalls = @ \cup {personId}]
    /\ UNCHANGED <<authUser, db_staff, pc, currentRole, staff, currentUserRole,
                   currentUserLocations, rolePermissions, isLoading,
                   toastError, visibleStaff, requests, NotDirectoryHandlers>>

\* the fetch of handleViewHrFile responds: data, or error: throw, catch;
\* finally
ViewHrFileResponds(personId) ==
    /\ dirx # Unmounted /\ personId \in dirx.hrCalls
    /\ \E resp \in HrResponses(personId) :
          dirx' = [dirx EXCEPT
              !.hrError = hrErrorDirectory(resp, @),
              !.hrRecord = IF resp.code = NULL /\ resp.data # nullObject
                           THEN resp.data ELSE @,
              !.hrCause = resp.cause,
              !.isHrLoading = FALSE,
              !.hrCalls = @ \ {personId}]
    /\ UNCHANGED <<authUser, db_staff, pc, currentRole, staff, currentUserRole,
                   currentUserLocations, rolePermissions, isLoading,
                   toastError, visibleStaff, requests, NotDirectoryHandlers>>

\* the awaited fetch rejects: catch, finally
ViewHrFileThrows(personId) ==
    /\ dirx # Unmounted /\ personId \in dirx.hrCalls
    /\ dirx' = [dirx EXCEPT !.hrError = HrDeniedOrNotFound,
                            !.hrCause = "failed",
                            !.isHrLoading = FALSE,
                            !.hrCalls = @ \ {personId}]
    /\ UNCHANGED <<authUser, db_staff, pc, currentRole, staff, currentUserRole,
                   currentUserLocations, rolePermissions, isLoading,
                   toastError, visibleStaff, requests, NotDirectoryHandlers>>

\* closeHrModal
CloseHrModal ==
    /\ dirx # Unmounted /\ dirx.viewingHrId # NoId
    /\ dirx' = [dirx EXCEPT !.viewingHrId = NoId, !.hrRecord = nullObject,
                            !.hrError = NULL, !.hrCause = "none"]
    /\ UNCHANGED <<authUser, db_staff, pc, currentRole, staff, currentUserRole,
                   currentUserLocations, rolePermissions, isLoading,
                   toastError, visibleStaff, requests, NotDirectoryHandlers>>

\* Directory.handleEditClick(person); the button is rendered for isExecutive
\* on the cards that are not being edited
DirEditClick(i) ==
    /\ dirx # Unmounted /\ dirx.visit = "editor"
    /\ i \in DOMAIN visibleStaff /\ isExecutive
    /\ dirx.editingUserId # visibleStaff[i].id
    /\ LET person == visibleStaff[i]
       IN  dirx' = [dirx EXCEPT !.editingUserId = person.id,
                                !.editRole = OrEmpty(person.role),
                                !.editDept = IF person.department = NULL
                                             THEN "" ELSE person.department]
    /\ UNCHANGED <<authUser, db_staff, pc, currentRole, staff, currentUserRole,
                   currentUserLocations, rolePermissions, isLoading,
                   toastError, visibleStaff, requests, NotDirectoryHandlers>>

\* a role checkbox of the editor
DirSetEditRole(role) ==
    /\ dirx # Unmounted /\ dirx.editingUserId \in ShownIds
    /\ dirx' = [dirx EXCEPT !.editRole = IF role \in @ THEN @ \ {role}
                                         ELSE @ \cup {role}]
    /\ UNCHANGED <<authUser, db_staff, pc, currentRole, staff, currentUserRole,
                   currentUserLocations, rolePermissions, isLoading,
                   toastError, visibleStaff, requests, NotDirectoryHandlers>>

\* handleCancelEdit; the button is disabled while saving
DirCancelEdit ==
    /\ dirx # Unmounted /\ dirx.editingUserId \in ShownIds /\ ~dirx.isSaving
    /\ dirx' = [dirx EXCEPT !.editingUserId = NoId]
    /\ UNCHANGED <<authUser, db_staff, pc, currentRole, staff, currentUserRole,
                   currentUserLocations, rolePermissions, isLoading,
                   toastError, visibleStaff, requests, NotDirectoryHandlers>>

\* handleSaveRole(person.id) up to the await of the update
DirSaveRole ==
    /\ dirx # Unmounted /\ dirx.editingUserId \in ShownIds /\ ~dirx.isSaving
    /\ dirx' = [dirx EXCEPT
           !.isSaving = TRUE,
           !.save = [target |-> dirx.editingUserId,
                     sent |-> [role |-> dirx.editRole,
                               department |-> dirx.editDept]]]
    /\ UNCHANGED <<authUser, db_staff, pc, currentRole, staff, currentUserRole,
                   currentUserLocations, rolePermissions, isLoading,
                   toastError, visibleStaff, requests, NotDirectoryHandlers>>

\* the store applies the update; handleSaveRole maps the values it sent
\* into staff and closes the editor
DirSaveOk ==
    /\ dirx # Unmounted /\ dirx.save # nullObject
    /\ db_staff' = update(db_staff, dirx.save.target, dirx.save.sent)
    /\ staff' = update(staff, dirx.save.target, dirx.save.sent)
    /\ dirx' = [dirx EXCEPT !.toast = "success", !.editingUserId = NoId,
                            !.isSaving = FALSE, !.save = nullObject]
    /\ visibleStaff' = render(isLoading, currentUserRole,
                              currentUserLocations, rolePermissions, staff')
    /\ UNCHANGED <<authUser, pc, currentRole, currentUserRole,
                   currentUserLocations, rolePermissions, isLoading,
                   toastError, requests, NotDirectoryHandlers>>

\* the update returns updateError or rejects: catch, finally
DirSaveFails ==
    /\ dirx # Unmounted /\ dirx.save # nullObject
    /\ dirx' = [dirx EXCEPT !.toast = "error", !.isSaving = FALSE,
                            !.save = nullObject]
    /\ UNCHANGED <<authUser, db_staff, pc, currentRole, staff, currentUserRole,
                   currentUserLocations, rolePermissions, isLoading,
                   toastError, visibleStaff, requests, NotDirectoryHandlers>>

DirectoryHandlersNext ==
    \/ \E personId \in StaffIds : HandleViewHrFile(personId)
    \/ \E personId \in StaffIds : ViewHrFileResponds(personId)
    \/ \E personId \in StaffIds : ViewHrFileThrows(personId)
    \/ CloseHrModal
    \/ \E i \in StaffIds : DirEditClick(i)
    \/ \E role \in EditRoles : DirSetEditRole(role)
    \/ DirCancelEdit
    \/ DirSaveRole
    \/ DirSaveOk
    \/ DirSaveFails

PageNext == DashNext \/ DirectoryHandlersNext

PageSpec == PageInit /\ [][PageNext]_vars

PageTypeOK ==
    /\ dash # Unmounted =>
          /\ dash.pc \in {"mount", "fetch", "done", "rejected"}
          /\ dash.hrpc \in {"mount", "fetch", "done", "rejected"}
          /\ dash.isLoading \in BOOLEAN
          /\ dash.hrError \in {NULL, HrCouldNotLoad}
    /\ dirx # Unmounted =>
          /\ dirx.viewingHrId \in {NoId} \cup StaffIds
          /\ dirx.editingUserId \in {NoId} \cup StaffIds
          /\ dirx.hrError \in {NULL, HrDeniedOrNotFound}
          /\ visibleStaff = render(isLoading, currentUserRole,
                                   currentUserLocations, rolePermissions, staff)
    /\ \A i \in StaffIds : db_staff[i].id = i

(***************************************************************************)
(* Properties of the Dashboard and of the Directory handlers.              *)
(***************************************************************************)
\* the staff member with the id in a list
Member(list, id) == CHOOSE p \in Range(list) : p.id = id

\* C14: when the remote update fails in handleSaveClick (Dashboard) or in
\* handleSaveRole (Directory), profileData / staff is left unchanged, edit
\* mode stays open and an error message is raised; the local state takes the
\* edited values only after the store has confirmed the write and then holds
\* exactly the values that were sent.
C14_FailedSaveKeepsStateAndReports ==
    [][/\ (DashSaveError \/ DashSaveThrows) =>
              /\ dash'.profileData = dash.profileData
              /\ dash'.isEditing
              /\ dash'.toast = "error"
       /\ DashSaveOk =>
              \A f \in FormFields : dash'.profileData[f] = dash.save.sent[f]
       /\ (dash # Unmounted /\ dash.profileData # nullObject
             /\ dash'.profileData # dash.profileData) => DashSaveOk
       /\ DirSaveFails =>
              /\ staff' = staff
              /\ dirx'.editingUserId # NoId
              /\ dirx'.toast = "error"
       /\ DirSaveOk =>
              /\ Member(staff', dirx.save.target).role = dirx.save.sent.role
              /\ Member(staff', dirx.save.target).department
                    = dirx.save.sent.department
       /\ (dirx # Unmounted /\ staff' # staff) => DirSaveOk]_vars

\* the session user holds one of the privileged roles in staff_profiles
ViewerPrivileged ==
    authUser # NoUser /\ db_staff[authUser].role \cap PrivilegedRoles # {}

\* the hr_records fetches the Dashboard has issued
HrRequests == {r \in requests : r.table = "hr_records"}

MissingResponse == [cause |-> "missing", data |-> nullObject, code |-> "PGRST116"]

\* C17 (as stated): the hrError state after a refused HR lookup differs from
\* the hrError state after a lookup of a missing record.
C17_DeniedDiffersFromMissing ==
    /\ (dirx # Unmounted /\ dirx.hrCause = "denied")
          => dirx.hrError # hrErrorDirectory(MissingResponse, NULL)
    /\ (dash # Unmounted /\ dash.hrCause = "denied")
          => dash.hrError # hrErrorDashboard(MissingResponse, NULL)

\* C17 (amended): in the Directory a refused lookup and a lookup of a
\* missing record leave the same hrError, 'Access denied or HR record not
\* found.', and no record from that response; on the Dashboard a missing
\* record leaves hrError null, and a refusal leaves 'Could not load HR data.'
\* or, when the store reports it as no row, null as well.
C17_DeniedAndMissingShareOneSignal ==
    /\ (dirx # Unmounted /\ dirx.hrCause \in {"denied", "missing", "failed"})
          => dirx.hrError = HrDeniedOrNotFound
    /\ (dash # Unmounted /\ dash.hrCause = "missing")
          => dash.hrError = NULL /\ dash.hrRecord = nullObject
    /\ (dash # Unmounted /\ dash.hrCause = "denied")
          => dash.hrError \in {NULL, HrCouldNotLoad}
                /\ dash.hrRecord = nullObject

\* the Directory shows the one message after a lookup the store refused
\* with an error of its own
C17_Witness ==
    /\ dirx # Unmounted
    /\ dirx.hrCause = "denied"
    /\ dirx.viewingHrId \in db_hr
    /\ dirx.hrError = HrDeniedOrNotFound
    /\ dirx.hrRecord = nullObject

\* the staff_profiles requests the Dashboard has issued
ProfileRequests ==
    {r \in requests : r.page = "dashboard" /\ r.table = "staff_profiles"}

\* C18: every staff_profiles fetch and update the Dashboard issues is keyed
\* on the id of the session user, a save writes no row of another staff
\* member, and without a user no fetch and no update is issued.
C18_DashboardKeyedOnSessionUser ==
    [][dash # Unmounted =>
          /\ \A r \in ProfileRequests' : r.id = authUser /\ authUser # NoUser
          /\ authUser = NoUser => requests' = {}
          /\ \A i \in StaffIds : i # authUser => db_staff'[i] = db_staff[i]
          /\ DashSaveOk =>
                \A f \in FormFields :
                    db_staff'[authUser][f] = dash.save.sent[f]]_vars

\* a save of an edited form has been written for the session user while
\* another staff member has a row
C18_Witness ==
    /\ dash # Unmounted
    /\ dash.toast = "success"
    /\ db_staff[authUser].bio = Typed
    /\ \E i \in StaffIds : i # authUser /\ db_staff[i].bio # Typed
    /\ \E r \in ProfileRequests : r.op = "update"
    /\ \E r \in ProfileRequests : r.op = "select"

(***************************************************************************)
(* App: the session state, the auth subscription and the routes.           *)
(***************************************************************************)
\* auth events that can wait for delivery to the subscription
MaxPending == 2

Paths == {"/", "/dashboard", "/directory", "/admin"}
ProtectedPaths == Paths \ {"/"}

\* a layout that renders the page without testing the session
ProtectedLayout_NoSessionTest(session, path) ==
    [screen |-> path, path |-> path]

\* ProtectedLayout: without a session, Navigate to "/", where Login is shown
ProtectedLayout(session, path) ==
    IF session = NoUser THEN [screen |-> "login", path |-> "/"]
    ELSE [screen |-> path, path |-> path]

\* what App renders, and the path after the redirects of the render
AppRender(loading, session, path) ==
    IF loading THEN [screen |-> "spinner", path |-> path]
    ELSE IF path = "/"
         THEN IF session # NoUser
              THEN ProtectedLayout(session, "/dashboard")
              ELSE [screen |-> "login", path |-> "/"]
         ELSE ProtectedLayout(session, path)

\* the screen the browser shows
Screen == AppRender(app.loading, app.session, app.path).screen

AppInit ==
    /\ \E path \in Paths, stored \in {NoUser} \cup StaffIds :
          app = [session |-> NoUser, loading |-> TRUE, path |-> path,
                 provider |-> stored, pending |-> <<>>, pc |-> "getSession",
                 lastEvent |-> "none"]
    /\ authUser = NoUser
    /\ db_staff = <<>>
    /\ db_perms = {}
    /\ DirectoryIdle
    /\ AdminIdle
    /\ PagesIdle

NotApp == <<db_staff, db_perms, directoryVars, adminVars, pageVars>>

\* getSession().then: the provider's session is taken, loading is cleared
GetSessionResolves ==
    /\ app.pc = "getSession"
    /\ app' = [app EXCEPT
           !.session = app.provider, !.loading = FALSE, !.pc = "done",
           !.path = AppRender(FALSE, app.provider, app.path).path]
    /\ UNCHANGED NotApp

\* getSession() rejects: there is no catch, loading stays set
GetSessionRejects ==
    /\ app.pc = "getSession"
    /\ app' = [app EXCEPT !.pc = "rejected"]
    /\ UNCHANGED NotApp

\* the provider signs a user in (Login, or another tab) and queues the event
SignIn(u) ==
    /\ app # Unmounted /\ app.provider = NoUser
    /\ Len(app.pending) < MaxPending
    /\ app' = [app EXCEPT
           !.provider = u,
           !.pending = Append(@, [event |-> "SIGNED_IN", session |-> u])]
    /\ UNCHANGED NotApp

\* the provider signs the user out (handleLogout, expiry, another tab)
SignOut ==
    /\ app # Unmounted /\ app.provider # NoUser
    /\ Len(app.pending) < MaxPending
    /\ app' = [app EXCEPT
           !.provider = NoUser,
           !.pending = Append(@, [event |-> "SIGNED_OUT", session |-> NoUser])]
    /\ UNCHANGED NotApp

\* onAuthStateChange((_event, session) => setSession(session))
AuthStateChange ==
    /\ app # Unmounted /\ app.pending # <<>>
    /\ LET e == Head(app.pending)
       IN  app' = [app EXCEPT
               !.session = e.session, !.lastEvent = e.event,
               !.pending = Tail(@),
               !.path = AppRender(app.loading, e.session, app.path).path]
    /\ UNCHANGED NotApp

\* the browser goes to a path (a link of the Navbar, the address bar)
Navigate(path) ==
    /\ app # Unmounted /\ path # app.path
    /\ app' = [app EXCEPT
           !.path = AppRender(app.loading, app.session, path).path]
    /\ UNCHANGED NotApp

AppNext ==
    \/ GetSessionResolves
    \/ GetSessionRejects
    \/ \E u \in StaffIds : SignIn(u)
    \/ SignOut
    \/ AuthStateChange
    \/ \E path \in Paths : Navigate(path)

AppSpec == AppInit /\ [][AppNext]_vars

\* C19: a protected page (dashboard, directory, admin) is rendered only while
\* the session is non-null: before the initial session lookup resolves only
\* the spinner is shown, without a session every route shows the login page,
\* and after a logout event delivered by onAuthStateChange the session is
\* null and no protected page is rendered.
C19_ProtectedPagesOnlyWithSession ==
    /\ [](/\ Screen \in ProtectedPaths => app.session # NoUser /\ ~app.loading
          /\ app.pc = "getSession" => Screen = "spinner"
          /\ (~app.loading /\ app.session = NoUser) =>
                \A path \in Paths :
                    AppRender(app.loading, app.session, path).screen = "login"
          /\ Screen \in ProtectedPaths \cup {"spinner", "login"})
    /\ [][(AuthStateChange /\ Head(app.pending).event = "SIGNED_OUT") =>
              /\ app'.session = NoUser
              /\ Screen' \notin ProtectedPaths
              /\ ~app'.loading => Screen' = "login" /\ app'.path = "/"]_vars

\* a signed-in viewer was on a protected page when the logout event arrived
C19_Witness ==
    /\ app # Unmounted
    /\ app.lastEvent = "SIGNED_OUT"
    /\ app.pc = "done"
    /\ app.session = NoUser
    /\ app.pending = <<>>
    /\ Screen = "login"

(***************************************************************************)
(* The loads of the three pages, with every issued request settled         *)
(* eventually.                                                             *)
(***************************************************************************)
\* one of the three pages has just been mounted
LoadInit ==
    \/ Init
    \/ AdminInit
    \/ PageInit /\ dash = DashMounted

\* Dashboard.fetchProfile
DashFetchProfile ==
    \/ DashMount
    \/ DashFetchProfileOk
    \/ DashFetchProfileError
    \/ DashFetchProfileThrows

\* Dashboard.fetchHrRecord, started by the same effect
DashFetchHr ==
    \/ DashFetchHrRecord
    \/ DashFetchHrThrows

\* AdminSettings.verifyAndLoadData
VerifyAndLoadData(a) ==
    \/ VerifyGetUser(a)
    \/ VerifyProfile(a)
    \/ VerifyFetchPermissions(a)
    \/ VerifyThrows(a)

LoadNext ==
    \/ Next
    \/ \E a \in Admins : VerifyAndLoadData(a)
    \/ DashFetchProfile
    \/ DashFetchHr

\* every awaited call settles and its continuation is run
LoadFairness ==
    /\ WF_vars(Next)
    /\ \A a \in Admins : WF_vars(VerifyAndLoadData(a))
    /\ WF_vars(DashFetchProfile)
    /\ WF_vars(DashFetchHr)

LoadSpec == LoadInit /\ [][LoadNext]_vars /\ LoadFairness

\* C20 (part): the loads of the Directory and of AdminSettings always clear
\* the loading flag, and a thrown failure raises their message.
C20_DirectoryAndAdminLoadsEnd ==
    /\ [](pc # "unmounted" => <>(~isLoading))
    /\ \A a \in Admins : [](admin[a] # Unmounted =>
                             <>(admin[a] # Unmounted /\ ~admin[a].isLoading))
    /\ [][(FetchStaffError \/ FetchThrows) => toastError']_vars
    /\ [][\A a \in Admins : VerifyThrows(a) => admin'[a].error = LoadFailed]_vars

\* C20: each page load (Dashboard fetchProfile, Directory
\* fetchDirectoryAndAuth, AdminSettings verifyAndLoadData) eventually clears
\* its loading flag whether the remote calls succeed, return an error or
\* fail outright, and a failure raises a user-facing message.
C20_EveryLoadEndsAndReportsFailure ==
    /\ C20_DirectoryAndAdminLoadsEnd
    /\ [](dash # Unmounted => <>(dash # Unmounted /\ ~dash.isLoading))
    /\ [][(DashFetchProfileError \/ DashFetchProfileThrows) =>
              dash'.toast = "error"]_vars

(***************************************************************************)
(* Properties of handleToggle and of the stored rules.                     *)
(***************************************************************************)
\* the staff rows of a department, as the Directory would be given them
StaffOf(dept) ==
    {WithId(StaffRows[i], 1) : i \in {j \in DOMAIN StaffRows :
                                  personDept(StaffRows[j]) = dept}}

\* C21: toggling can_view on for a (viewer_role, target_department) pair
\* that has no stored rule creates a rule with can_view = true and an empty
\* visible_fields; under that rule the evaluator shows neither the phone nor
\* the bio of a target of the department.
C21_NewRuleShowsNoField ==
    [][\A c \in calls :
          (UpsertOk(c) /\ c.field = "can_view"
                       /\ RulesAt(db_perms, c.row) = {}) =>
              LET made == [viewer_role |-> admin[c.who].selectedRole,
                           target_department |-> c.dept,
                           can_view |-> TRUE, visible_fields |-> {}]
              IN  /\ RulesAt(db_perms', c.row) = {made}
                  /\ db_perms' = db_perms \cup {made}
                  /\ \A person \in StaffOf(c.dept) :
                        /\ departmentGate(<<made>>, person)
                        /\ masked(<<made>>, person).work_phone = ""
                        /\ masked(<<made>>, person).bio = ""]_vars

\* the store has created the rule of a pair it held no rule for
C21_Witness ==
    /\ toggles = 1
    /\ \E c \in calls :
          /\ c.stage = "fetch" /\ c.field = "can_view"
          /\ c.storeBefore = {}
          /\ RulesAt(db_perms, c.row) = {c.row}
          /\ c.row.can_view /\ c.row.visible_fields = {}
          /\ StaffOf(c.dept) # {}

\* the stored rule after the store has applied the can_view toggle of c
CanViewFlipped(c) ==
    \E old \in RulesAt(db_perms, c.row) :
        RulesAt(db_perms', c.row) = {[old EXCEPT !.can_view = ~@]}

\* the evaluator shows no target of the department of a stored rule that
\* has can_view = false, whatever its field list
HiddenWhileCanViewFalse ==
    \A r \in db_perms :
        ~r.can_view =>
            \A person \in StaffOf(r.target_department) :
                /\ ~departmentGate(<<r>>, person)
                /\ getVisibleStaffAndMasking({r.viewer_role}, {}, <<r>>,
                                             <<person>>) = <<>>

\* C22 as stated: toggling can_view off leaves the stored visible_fields of
\* the rule as they were, and toggling it on again returns the stored rule
\* to its original state; while can_view is false the evaluator shows no
\* target of the department.
C22_CanViewToggleKeepsStoredFields ==
    /\ [][\A c \in calls :
             (UpsertOk(c) /\ c.field = "can_view"
                          /\ RulesAt(db_perms, c.row) # {})
                 => CanViewFlipped(c)]_vars
    /\ []HiddenWhileCanViewFalse

\* the editor of a shows the rule of (selectedRole, dept) as it is stored
ShowsStoredRule(a, dept) ==
    LET role == admin[a].selectedRole
        key == [viewer_role |-> role, target_department |-> dept]
    IN  /\ EditorShown(a)
        /\ existingRule(admin[a].permissions, role, dept) # undefined
        /\ RulesAt(db_perms, key) = RulesAt(admin[a].permissions, key)

\* the table after a completed can_view toggle of (role, dept): the click
\* with the editor's rules, the upsert, the re-fetch
AfterCanViewToggle(table, role, dept) ==
    Upsert(table, rowObject(table, role, dept, "can_view",
                            checked(table, role, dept, "can_view")))

\* C22 (amended): when the editor's copy of the rule is the stored rule
\* while the upsert is applied, a can_view toggle changes can_view only and
\* keeps the stored visible_fields, and two consecutive completed can_view
\* toggles return the table to what it was; while can_view is false the
\* evaluator shows no target of the department.
C22_CanViewToggleKeepsFieldsOfShownRule ==
    /\ [][\A c \in calls :
             (UpsertOk(c) /\ c.field = "can_view"
                          /\ RulesAt(db_perms, c.row) # {}
                          /\ RulesAt(db_perms, c.row) =
                                RulesAt(c.localBefore, c.row))
                 => CanViewFlipped(c)]_vars
    /\ [](\A a \in Admins, dept \in MatrixRows :
             ShowsStoredRule(a, dept) =>
                 LET role == admin[a].selectedRole
                     once == AfterCanViewToggle(db_perms, role, dept)
                     twice == AfterCanViewToggle(once, role, dept)
                 IN  /\ once # db_perms
                     /\ {r.visible_fields : r \in once} =
                            {r.visible_fields : r \in db_perms}
                     /\ twice = db_perms)
    /\ []HiddenWhileCanViewFalse

\* one administrator has hidden a department whose rule lists a field and,
\* after the re-fetch, shown it again; the store holds the rule it held
C22_Witness ==
    /\ Len(writeLog) = 2
    /\ writeLog[1].who = writeLog[2].who
    /\ writeLog[2].row.can_view
    /\ writeLog[2].row.visible_fields # {}
    /\ writeLog[1].row = [writeLog[2].row EXCEPT !.can_view = FALSE]
    /\ writeLog[2].row \in db_perms
    /\ \E c \in calls :
          /\ c.stage = "fetch" /\ c.field = "can_view"
          /\ c.row = writeLog[2].row
          /\ c.storeBefore = {writeLog[1].row}
          /\ RulesAt(c.localBefore, c.row) = {writeLog[1].row}

\* the rule a key has in a table, or what handleToggle assumes without one
RuleOrDefault(table, row) ==
    IF RulesAt(table, row) = {}
    THEN [row EXCEPT !.can_view = FALSE, !.visible_fields = {}]
    ELSE CHOOSE r \in RulesAt(table, row) : TRUE

\* new differs from old in the toggled attribute and in nothing else
OnlyToggled(old, new, field) ==
    IF field = "can_view"
    THEN /\ new.can_view = ~old.can_view
         /\ new.visible_fields = old.visible_fields
    ELSE /\ new.can_view = old.can_view
         /\ new.visible_fields \ {field} = old.visible_fields \ {field}
         /\ (field \in new.visible_fields) # (field \in old.visible_fields)

\* the frame of a handleToggle outside the rule's attributes: the store
\* changes only when it applies an upsert, then only at the key
\* (selectedRole, dept), and it holds one rule per key
ToggleFrame ==
    /\ [][\A c \in calls :
             UpsertOk(c) =>
                 /\ c.row.viewer_role = admin[c.who].selectedRole
                 /\ c.row.target_department = c.dept
                 /\ db_perms' \ RulesAt(db_perms', c.row) =
                        db_perms \ RulesAt(db_perms, c.row)
                 /\ Cardinality(RulesAt(db_perms', c.row)) = 1]_vars
    /\ [][(~ \E c \in calls : UpsertOk(c)) => db_perms' = db_perms]_vars
    /\ []UniqueKey(db_perms)

\* C23 as stated: a completed handleToggle(dept, field) changes at most the
\* stored rule keyed (selectedRole, dept), and within that rule only the
\* toggled attribute; every rule of another role or department is unchanged
\* and the store never holds two rules with the same key.
C23_ToggleChangesOnlyToggledAttribute ==
    /\ ToggleFrame
    /\ [][\A c \in calls :
             UpsertOk(c) =>
                 OnlyToggled(RuleOrDefault(db_perms, c.row),
                             RuleOrDefault(db_perms', c.row), c.field)]_vars

\* C23 (amended): a handleToggle changes at most the stored rule keyed
\* (selectedRole, dept), every other rule is unchanged and no key has two
\* rules; within the rule only the toggled attribute changes when the
\* editor's copy of the rule is the stored rule while the upsert is applied.
C23_ToggleFrameOfShownRule ==
    /\ ToggleFrame
    /\ [][\A c \in calls :
             (UpsertOk(c) /\ RulesAt(db_perms, c.row) =
                                 RulesAt(c.localBefore, c.row)) =>
                 OnlyToggled(RuleOrDefault(db_perms, c.row),
                             RuleOrDefault(db_perms', c.row), c.field)]_vars

\* a field toggle has been applied to the stored rule the editor showed,
\* in a table that holds a rule of another key
C23_Witness ==
    \E c \in calls :
        /\ c.stage = "fetch" /\ c.field # "can_view"
        /\ c.storeBefore # {}
        /\ c.storeBefore = RulesAt(c.localBefore, c.row)
        /\ RulesAt(db_perms, c.row) = {c.row}
        /\ c.row \notin c.storeBefore
        /\ db_perms \ {c.row} # {}
        /\ Len(writeLog) = 1

\* the change a handleToggle call was clicked for is present in the rule
ChangePresent(c, old, new) ==
    IF c.field = "can_view"
    THEN new.can_view = ~old.can_view
    ELSE (c.field \in new.visible_fields) # (c.field \in old.visible_fields)

\* C24: if one administrator triggers two handleToggle calls on different
\* attributes of the same rule, the second before the re-fetch of the first
\* has completed, then both changes are present in the stored rule once the
\* store has applied both (the re-fetches that end the calls do not write).
C24_NoToggleOfOneSessionLost ==
    \A c1, c2 \in calls :
        (/\ c1.who = c2.who /\ c1.dept = c2.dept /\ c1.field # c2.field
         /\ c1.localBefore = c2.localBefore
         /\ c1.storeBefore = RulesAt(c1.localBefore, c1.row)
         /\ c1.stage = "fetch" /\ c2.stage = "fetch"
         /\ Len(writeLog) = 2
         /\ \A i \in DOMAIN writeLog : writeLog[i].who = c1.who)
            => LET old == RuleOrDefault(c1.localBefore, c1.row)
                   new == RuleOrDefault(db_perms, c1.row)
               IN  /\ ChangePresent(c1, old, new)
                   /\ ChangePresent(c2, old, new)

(***************************************************************************)
(* Properties of the Directory's HR modal and cards and of the Dashboard's *)
(* form.                                                                   *)
(***************************************************************************)
\* C25: in the Directory, whenever hrRecord is non-null its id equals
\* viewingHrId, also when the responses of successive handleViewHrFile calls
\* arrive out of order or arrive after closeHrModal.
C25_HrRecordIsOfViewedPerson ==
    (dirx # Unmounted /\ dirx.hrRecord # nullObject)
        => dirx.hrRecord.id = dirx.viewingHrId

\* C26: the directory fails closed: if the viewer's own profile or the
\* viewer's permission rules cannot be loaded while the roster itself
\* loads, currentUserRole or rolePermissions stays empty and the visible
\* roster is empty; the loaded rules are stored rules of the viewer's
\* roles, and no staff record is shown without a loaded rule that admits
\* its department.
C26_DirectoryFailsClosed ==
    /\ Range(rolePermissions) \subseteq
          {r \in db_perms : HasRoles /\ r.viewer_role \in currentUserRole}
    /\ (~HasRoles \/ rolePermissions = <<>>) =>
          /\ Result = <<>>
          /\ visibleStaff = <<>>
    /\ pc = "done" => visibleStaff = (IF isLoading THEN <<>> ELSE Result)
    /\ \A i \in DOMAIN visibleStaff :
          \E r \in Range(rolePermissions) :
              /\ r.can_view
              /\ r.target_department = personDept(Fetched(visibleStaff[i]))

\* the roster has loaded and a stored rule of the viewer's role admits a
\* target, but the permission fetch returned nothing: no card is shown
C26_Witness ==
    /\ Loaded /\ authUser # NoUser /\ HasRoles
    /\ rolePermissions = <<>>
    /\ \E r \in db_perms, p \in Range(staff) :
          /\ r.viewer_role \in currentUserRole /\ r.can_view
          /\ r.target_department = personDept(p)
          /\ LocationAdmits(p)
    /\ visibleStaff = <<>>

\* C27: every field name that handleToggle can add to visible_fields is a
\* field name the directory evaluator tests when redacting: after an
\* administrator has enabled the phone column for (role, department), a
\* viewer with that role sees the phone of the visible targets of that
\* department.
C27_EnabledPhoneIsShown ==
    [][\A c \in calls :
          (UpsertOk(c) /\ c.field = "phone_number" /\ c.row.can_view
                       /\ "phone_number" \in c.row.visible_fields) =>
              \A person \in StaffOf(c.dept) :
                  LET shown == getVisibleStaffAndMasking(
                                   {c.row.viewer_role}, {},
                                   <<CHOOSE r \in RulesAt(db_perms', c.row) :
                                         TRUE>>,
                                   <<person>>)
                  IN  /\ Len(shown) = 1
                      /\ shown[1].work_phone = person.work_phone]_vars

\* C28: for a viewer holding executive, hr or hr_management, every target in
\* the visible roster that is not being edited offers the 'View HR File'
\* action, whatever the values of the target's phone, bio and license number
\* after redaction.
C28_EveryCardOffersHrFile ==
    (dirx # Unmounted /\ isHrOrExec) =>
        \A i \in DOMAIN visibleStaff :
            visibleStaff[i].id # dirx.editingUserId =>
                ViewHrFileOffered(visibleStaff[i])

\* C29: for a Dashboard user holding none of hr, hr_management and
\* executive, a successful handleSaveClick never changes the stored legal
\* names or display_name of the profile: the values written for these
\* fields equal the values that were loaded.
C29_SaveKeepsHrOnlyFields ==
    [][(DashSaveOk /\ ~isHR) =>
          \A f \in HrOnlyFields :
              /\ dash.save.sent[f] = dash.profileData[f]
              /\ db_staff'[authUser][f] = db_staff[authUser][f]]_vars

====
